---- MODULE Spec2Model ----
(***************************************************************************)
(* A model of librsvg's document tree (rsvg_internals/src/node.rs), its    *)
(* conditional-processing evaluator (src/cond.rs) and its text layout      *)
(* pipeline (src/text.rs).                                                 *)
(*                                                                         *)
(* Strings are modelled as sequences of lexemes: a lexeme is a word, or    *)
(* one of the separators " " and ",".  The empty string is << >>.          *)
(***************************************************************************)
EXTENDS Integers, Sequences, FiniteSets, TLC

(***************************************************************************)
(* Bounds                                                                  *)
(***************************************************************************)
NumNodes == 4
MaxBag == 2
MaxOps == 2

(***************************************************************************)
(* The tree: tree_utils::Node<NodeData>.  Nodes are numbered in heap       *)
(* order: node 1 is the root, node n's parent is n \div 2.                 *)
(***************************************************************************)
Nodes == 1..NumNodes
Root == 1
NoNode == 0

Parent(n) == n \div 2

children(n) == {m \in Nodes : m # Root /\ Parent(m) = n}

RECURSIVE IsAncestorOrSelf(_, _)
IsAncestorOrSelf(a, n) ==
    IF n = a THEN TRUE
    ELSE IF n = Root \/ n < a THEN FALSE
    ELSE IsAncestorOrSelf(a, Parent(n))

Subtree(n) == {m \in Nodes : IsAncestorOrSelf(n, m)}

Min(S) == CHOOSE x \in S : \A y \in S : x <= y

\* The children of n in document order.
RECURSIVE SortedSeq(_)
SortedSeq(S) ==
    IF S = {} THEN << >>
    ELSE LET m == Min(S) IN << m >> \o SortedSeq(S \ {m})

children_seq(n) == SortedSeq(children(n))

(***************************************************************************)
(* Element identity, fixed by Node::new: node_type, id, class.             *)
(* The document checked is                                                 *)
(*   <svg> <rect class="a" id="x"> <rect class="a b"> ... </svg>           *)
(***************************************************************************)
NoneStr == "None"

get_type(n) == IF n = Root THEN "Svg" ELSE "Rect"

element_name(t) == IF t = "Svg" THEN "svg" ELSE "rect"

get_id(n) == IF n = 2 THEN "x" ELSE NoneStr

get_class(n) ==
    IF n = 2 THEN << "a" >>
    ELSE IF n = 3 THEN << "a", " ", "b" >>
    ELSE << >>

(***************************************************************************)
(* Style properties.  fill is inherited, overflow is not.                  *)
(***************************************************************************)
Props == {"fill", "overflow"}

Inherits(p) == p = "fill"

Initial(p) == IF p = "fill" THEN "black" ELSE "visible"

Unspecified == "unspecified"
Inherit == "inherit"

ComputedDefault == [p \in Props |-> Initial(p)]

SpecifiedDefault == [p \in Props |-> Unspecified]

\* SpecifiedValues::to_computed_values: the merge of the values handed down
\* by the parent with the node's own specified values.
to_computed_values(specified, values) ==
    [p \in Props |->
        IF specified[p] = Unspecified
        THEN (IF Inherits(p) THEN values[p] ELSE Initial(p))
        ELSE IF specified[p] = Inherit THEN values[p]
        ELSE specified[p]]

\* The values a property parser accepts.
ValidValues(p) ==
    IF p = "fill"
    THEN {"black", "red", "blue", "v_star", "v_tag", "v_tag_class_id",
          "v_class_id", "v_tag_class", "v_class", "v_id", "v_tag_id",
          "v_style", Inherit}
    ELSE {"visible", "hidden", Inherit}

(***************************************************************************)
(* NodeResult                                                              *)
(***************************************************************************)
Ok == [err |-> FALSE, attr |-> ""]

Err(a) == [err |-> TRUE, attr |-> a]

(***************************************************************************)
(* String helpers (std): split, trim, split_whitespace.                    *)
(***************************************************************************)
RECURSIVE split_from(_, _, _, _)
split_from(s, sep, i, cur) ==
    IF i > Len(s) THEN << cur >>
    ELSE IF s[i] = sep THEN << cur >> \o split_from(s, sep, i + 1, << >>)
    ELSE split_from(s, sep, i + 1, Append(cur, s[i]))

\* str::split: always yields at least one piece, possibly empty.
split(s, sep) == split_from(s, sep, 1, << >>)

RECURSIVE trim_start(_)
trim_start(t) ==
    IF t # << >> /\ Head(t) = " " THEN trim_start(Tail(t)) ELSE t

RECURSIVE trim_end(_)
trim_end(t) ==
    IF t # << >> /\ t[Len(t)] = " " THEN trim_end(SubSeq(t, 1, Len(t) - 1)) ELSE t

trim(t) == trim_end(trim_start(t))

IsNonEmpty(t) == t # << >>

\* str::split_whitespace: the non-empty pieces between whitespace.
split_whitespace(s) == SelectSeq(split(s, " "), IsNonEmpty)

(***************************************************************************)
(* src/cond.rs                                                             *)
(***************************************************************************)
\* A Result<bool, ValueErrorKind>.
CondOk(b) == [err |-> FALSE, val |-> b]

CondErr == [err |-> TRUE, val |-> FALSE]

IMPLEMENTED_EXTENSIONS == << >>

\* The table in an order that ignores letter case.
IMPLEMENTED_FEATURES_by_letter ==
    << "http://www.w3.org/TR/SVG11/feature#BasicFilter",
       "http://www.w3.org/TR/SVG11/feature#BasicGraphicsAttribute",
       "http://www.w3.org/TR/SVG11/feature#BasicPaintAttribute",
       "http://www.w3.org/TR/SVG11/feature#BasicStructure",
       "http://www.w3.org/TR/SVG11/feature#BasicText",
       "http://www.w3.org/TR/SVG11/feature#ConditionalProcessing",
       "http://www.w3.org/TR/SVG11/feature#ContainerAttribute",
       "http://www.w3.org/TR/SVG11/feature#Filter",
       "http://www.w3.org/TR/SVG11/feature#Gradient",
       "http://www.w3.org/TR/SVG11/feature#Image",
       "http://www.w3.org/TR/SVG11/feature#Marker",
       "http://www.w3.org/TR/SVG11/feature#Mask",
       "http://www.w3.org/TR/SVG11/feature#OpacityAttribute",
       "http://www.w3.org/TR/SVG11/feature#Pattern",
       "http://www.w3.org/TR/SVG11/feature#Shape",
       "http://www.w3.org/TR/SVG11/feature#Structure",
       "http://www.w3.org/TR/SVG11/feature#Style",
       "http://www.w3.org/TR/SVG11/feature#SVG",
       "http://www.w3.org/TR/SVG11/feature#SVG-static",
       "http://www.w3.org/TR/SVG11/feature#View",
       "org.w3c.svg.static" >>

IMPLEMENTED_FEATURES ==
    << "http://www.w3.org/TR/SVG11/feature#BasicFilter",
       "http://www.w3.org/TR/SVG11/feature#BasicGraphicsAttribute",
       "http://www.w3.org/TR/SVG11/feature#BasicPaintAttribute",
       "http://www.w3.org/TR/SVG11/feature#BasicStructure",
       "http://www.w3.org/TR/SVG11/feature#BasicText",
       "http://www.w3.org/TR/SVG11/feature#ConditionalProcessing",
       "http://www.w3.org/TR/SVG11/feature#ContainerAttribute",
       "http://www.w3.org/TR/SVG11/feature#Filter",
       "http://www.w3.org/TR/SVG11/feature#Gradient",
       "http://www.w3.org/TR/SVG11/feature#Image",
       "http://www.w3.org/TR/SVG11/feature#Marker",
       "http://www.w3.org/TR/SVG11/feature#Mask",
       "http://www.w3.org/TR/SVG11/feature#OpacityAttribute",
       "http://www.w3.org/TR/SVG11/feature#Pattern",
       "http://www.w3.org/TR/SVG11/feature#SVG",
       "http://www.w3.org/TR/SVG11/feature#SVG-static",
       "http://www.w3.org/TR/SVG11/feature#Shape",
       "http://www.w3.org/TR/SVG11/feature#Structure",
       "http://www.w3.org/TR/SVG11/feature#Style",
       "http://www.w3.org/TR/SVG11/feature#View",
       "org.w3c.svg.static" >>

\* The characters of the words compared by the binary search, and their
\* byte values: &str is ordered byte by byte.
FeaturePrefix ==
    << "h", "t", "t", "p", ":", "/", "/", "w", "w", "w", ".", "w", "3", ".", "o", "r", "g", "/", "T", "R", "/", "S", "V", "G", "1", "1", "/", "f", "e", "a", "t", "u", "r", "e", "#" >>

Spell(w) ==
    CASE w = "http://www.w3.org/TR/SVG11/feature#BasicFilter" ->
          FeaturePrefix \o << "B", "a", "s", "i", "c", "F", "i", "l", "t", "e", "r" >>
      [] w = "http://www.w3.org/TR/SVG11/feature#BasicGraphicsAttribute" ->
          FeaturePrefix \o << "B", "a", "s", "i", "c", "G", "r", "a", "p", "h", "i", "c", "s", "A", "t", "t", "r", "i", "b", "u", "t", "e" >>
      [] w = "http://www.w3.org/TR/SVG11/feature#BasicPaintAttribute" ->
          FeaturePrefix \o << "B", "a", "s", "i", "c", "P", "a", "i", "n", "t", "A", "t", "t", "r", "i", "b", "u", "t", "e" >>
      [] w = "http://www.w3.org/TR/SVG11/feature#BasicStructure" ->
          FeaturePrefix \o << "B", "a", "s", "i", "c", "S", "t", "r", "u", "c", "t", "u", "r", "e" >>
      [] w = "http://www.w3.org/TR/SVG11/feature#BasicText" ->
          FeaturePrefix \o << "B", "a", "s", "i", "c", "T", "e", "x", "t" >>
      [] w = "http://www.w3.org/TR/SVG11/feature#ConditionalProcessing" ->
          FeaturePrefix \o << "C", "o", "n", "d", "i", "t", "i", "o", "n", "a", "l", "P", "r", "o", "c", "e", "s", "s", "i", "n", "g" >>
      [] w = "http://www.w3.org/TR/SVG11/feature#ContainerAttribute" ->
          FeaturePrefix \o << "C", "o", "n", "t", "a", "i", "n", "e", "r", "A", "t", "t", "r", "i", "b", "u", "t", "e" >>
      [] w = "http://www.w3.org/TR/SVG11/feature#Filter" ->
          FeaturePrefix \o << "F", "i", "l", "t", "e", "r" >>
      [] w = "http://www.w3.org/TR/SVG11/feature#Gradient" ->
          FeaturePrefix \o << "G", "r", "a", "d", "i", "e", "n", "t" >>
      [] w = "http://www.w3.org/TR/SVG11/feature#Image" ->
          FeaturePrefix \o << "I", "m", "a", "g", "e" >>
      [] w = "http://www.w3.org/TR/SVG11/feature#Marker" ->
          FeaturePrefix \o << "M", "a", "r", "k", "e", "r" >>
      [] w = "http://www.w3.org/TR/SVG11/feature#Mask" ->
          FeaturePrefix \o << "M", "a", "s", "k" >>
      [] w = "http://www.w3.org/TR/SVG11/feature#OpacityAttribute" ->
          FeaturePrefix \o << "O", "p", "a", "c", "i", "t", "y", "A", "t", "t", "r", "i", "b", "u", "t", "e" >>
      [] w = "http://www.w3.org/TR/SVG11/feature#Pattern" ->
          FeaturePrefix \o << "P", "a", "t", "t", "e", "r", "n" >>
      [] w = "http://www.w3.org/TR/SVG11/feature#SVG" ->
          FeaturePrefix \o << "S", "V", "G" >>
      [] w = "http://www.w3.org/TR/SVG11/feature#SVG-static" ->
          FeaturePrefix \o << "S", "V", "G", "-", "s", "t", "a", "t", "i", "c" >>
      [] w = "http://www.w3.org/TR/SVG11/feature#Shape" ->
          FeaturePrefix \o << "S", "h", "a", "p", "e" >>
      [] w = "http://www.w3.org/TR/SVG11/feature#Structure" ->
          FeaturePrefix \o << "S", "t", "r", "u", "c", "t", "u", "r", "e" >>
      [] w = "http://www.w3.org/TR/SVG11/feature#Style" ->
          FeaturePrefix \o << "S", "t", "y", "l", "e" >>
      [] w = "http://www.w3.org/TR/SVG11/feature#View" ->
          FeaturePrefix \o << "V", "i", "e", "w" >>
      [] w = "http://www.w3.org/TR/SVG11/feature#NotExisting" ->
          FeaturePrefix \o << "N", "o", "t", "E", "x", "i", "s", "t", "i", "n", "g" >>
      [] w = "http://www.w3.org/TR/SVG11/feature#Text" ->
          FeaturePrefix \o << "T", "e", "x", "t" >>
      [] w = "org.w3c.svg.static" ->
          << "o", "r", "g", ".", "w", "3", "c", ".", "s", "v", "g", ".", "s", "t", "a", "t", "i", "c" >>
      [] w = "org.w3c.svg.static.x" ->
          << "o", "r", "g", ".", "w", "3", "c", ".", "s", "v", "g", ".", "s", "t", "a", "t", "i", "c", ".", "x" >>
      [] w = "http://test.org/NotExisting/1.0" ->
          << "h", "t", "t", "p", ":", "/", "/", "t", "e", "s", "t", ".", "o", "r", "g", "/", "N", "o", "t", "E", "x", "i", "s", "t", "i", "n", "g", "/", "1", ".", "0" >>

Byte(c) ==
    CASE c = "#" -> 35
      [] c = "-" -> 45
      [] c = "." -> 46
      [] c = "/" -> 47
      [] c = "0" -> 48
      [] c = "1" -> 49
      [] c = "3" -> 51
      [] c = ":" -> 58
      [] c = "A" -> 65
      [] c = "B" -> 66
      [] c = "C" -> 67
      [] c = "E" -> 69
      [] c = "F" -> 70
      [] c = "G" -> 71
      [] c = "I" -> 73
      [] c = "M" -> 77
      [] c = "N" -> 78
      [] c = "O" -> 79
      [] c = "P" -> 80
      [] c = "R" -> 82
      [] c = "S" -> 83
      [] c = "T" -> 84
      [] c = "V" -> 86
      [] c = "a" -> 97
      [] c = "b" -> 98
      [] c = "c" -> 99
      [] c = "d" -> 100
      [] c = "e" -> 101
      [] c = "f" -> 102
      [] c = "g" -> 103
      [] c = "h" -> 104
      [] c = "i" -> 105
      [] c = "k" -> 107
      [] c = "l" -> 108
      [] c = "m" -> 109
      [] c = "n" -> 110
      [] c = "o" -> 111
      [] c = "p" -> 112
      [] c = "r" -> 114
      [] c = "s" -> 115
      [] c = "t" -> 116
      [] c = "u" -> 117
      [] c = "v" -> 118
      [] c = "w" -> 119
      [] c = "x" -> 120
      [] c = "y" -> 121

\* Ord for &str: -1 for Less, 0 for Equal, 1 for Greater.  The order is
\* decided at the first position where the bytes differ, or by the lengths
\* when one string is a prefix of the other.
cmp_bytes(a, b) ==
    LET common == IF Len(a) < Len(b) THEN Len(a) ELSE Len(b)
        differ == {i \in 1..common : a[i] # b[i]}
    IN  IF differ # {}
        THEN (IF Byte(a[Min(differ)]) < Byte(b[Min(differ)]) THEN -1 ELSE 1)
        ELSE IF Len(a) < Len(b) THEN -1
        ELSE IF Len(a) > Len(b) THEN 1
        ELSE 0

\* The words Spell spells.
SpelledWords ==
    {"http://www.w3.org/TR/SVG11/feature#BasicFilter",
     "http://www.w3.org/TR/SVG11/feature#BasicGraphicsAttribute",
     "http://www.w3.org/TR/SVG11/feature#BasicPaintAttribute",
     "http://www.w3.org/TR/SVG11/feature#BasicStructure",
     "http://www.w3.org/TR/SVG11/feature#BasicText",
     "http://www.w3.org/TR/SVG11/feature#ConditionalProcessing",
     "http://www.w3.org/TR/SVG11/feature#ContainerAttribute",
     "http://www.w3.org/TR/SVG11/feature#Filter",
     "http://www.w3.org/TR/SVG11/feature#Gradient",
     "http://www.w3.org/TR/SVG11/feature#Image",
     "http://www.w3.org/TR/SVG11/feature#Marker",
     "http://www.w3.org/TR/SVG11/feature#Mask",
     "http://www.w3.org/TR/SVG11/feature#OpacityAttribute",
     "http://www.w3.org/TR/SVG11/feature#Pattern",
     "http://www.w3.org/TR/SVG11/feature#SVG",
     "http://www.w3.org/TR/SVG11/feature#SVG-static",
     "http://www.w3.org/TR/SVG11/feature#Shape",
     "http://www.w3.org/TR/SVG11/feature#Structure",
     "http://www.w3.org/TR/SVG11/feature#Style",
     "http://www.w3.org/TR/SVG11/feature#View",
     "http://www.w3.org/TR/SVG11/feature#NotExisting",
     "http://www.w3.org/TR/SVG11/feature#Text",
     "org.w3c.svg.static",
     "org.w3c.svg.static.x",
     "http://test.org/NotExisting/1.0"}

\* The comparisons of all pairs of words, computed once.
Ordering ==
    [p \in SpelledWords \X SpelledWords |-> cmp_bytes(Spell(p[1]), Spell(p[2]))]

str_cmp(v, w) == Ordering[<< v, w >>]

\* slice::binary_search: the loop halves the range [base, base + size) and
\* keeps base at an element not greater than the target; the element left
\* is then compared for equality.
RECURSIVE binary_search_loop(_, _, _, _)
binary_search_loop(table, f, base, size) ==
    IF size > 1
    THEN LET half == size \div 2
             mid == base + half
         IN  binary_search_loop(table, f,
                                IF str_cmp(table[mid], f) = 1 THEN base ELSE mid,
                                size - half)
    ELSE str_cmp(table[base], f) = 0

binary_search(table, f) ==
    IF Len(table) = 0 THEN FALSE
    ELSE binary_search_loop(table, f, 1, Len(table))

\* table.binary_search(&f).is_ok() for a token f.  A token of more than one
\* lexeme (one holding a comma) is no entry of either table.
table_has(table, f) ==
    Len(f) = 1 /\ binary_search(table, f[1])

RequiredExtensions_from_attribute(s) ==
    LET toks == split_whitespace(s)
    IN  CondOk(\A i \in 1..Len(toks) : table_has(IMPLEMENTED_EXTENSIONS, toks[i]))

RequiredFeatures_from_attribute(s) ==
    LET toks == split_whitespace(s)
    IN  CondOk(\A i \in 1..Len(toks) : table_has(IMPLEMENTED_FEATURES, toks[i]))

\* LanguageTag::from_str on the lexemes the model uses: the subtags of a
\* well-formed tag, << >> for text that is no language tag.
Subtags(w) ==
    CASE w = "de" -> << "de" >>
      [] w = "DE" -> << "DE" >>
      [] w = "de-LU" -> << "de", "LU" >>
      [] w = "en" -> << "en" >>
      [] w = "en-US" -> << "en", "US" >>
      [] w = "en-GB" -> << "en", "GB" >>
      [] w = "fr" -> << "fr" >>
      [] OTHER -> << >>

\* ASCII lower-casing of a subtag.
Lower(x) ==
    CASE x = "DE" -> "de"
      [] x = "LU" -> "lu"
      [] x = "US" -> "us"
      [] x = "GB" -> "gb"
      [] OTHER -> x

LanguageTag_from_str(t) ==
    IF Len(t) = 1 /\ Subtags(t[1]) # << >>
    THEN [ok |-> TRUE, tag |-> Subtags(t[1])]
    ELSE [ok |-> FALSE, tag |-> << >>]

\* LanguageTag::matches: the range is the tag or a prefix of it, compared
\* without regard to case.
matches(range, tag) ==
    /\ Len(range) <= Len(tag)
    /\ \A i \in 1..Len(range) : Lower(range[i]) = Lower(tag[i])

\* LanguageTags::from_locale: the locale's ranges, each parsed as a tag.
LanguageTags_from_locale(locale) ==
    IF \A i \in 1..Len(locale) : LanguageTag_from_str(<< locale[i] >>).ok
    THEN [ok |-> TRUE,
          tags |-> [i \in 1..Len(locale) |-> LanguageTag_from_str(<< locale[i] >>).tag]]
    ELSE [ok |-> FALSE, tags |-> << >>]

any_matches_reversed(tags, language_tag) ==
    \E i \in 1..Len(tags) : matches(language_tag, tags[i])

any_matches(tags, language_tag) ==
    \E i \in 1..Len(tags) : matches(tags[i], language_tag)

locale_accepts_language_tag(locale, language_tag) ==
    LET tags == LanguageTags_from_locale(locale)
    IN  IF tags.ok THEN CondOk(any_matches(tags.tags, language_tag)) ELSE CondErr

\* The Err arm of the fold: a token that is no language tag is an error,
\* whatever the accumulator holds.
tag_error_unless_matched(tag_result, acc) == ~tag_result.ok /\ ~acc

tag_error(tag_result, acc) == ~tag_result.ok

\* The try_fold of SystemLanguage::from_attribute from token i on.
RECURSIVE system_language_fold(_, _, _, _)
system_language_fold(toks, i, acc, locale) ==
    IF i > Len(toks) THEN CondOk(acc)
    ELSE LET tag_result == LanguageTag_from_str(trim(toks[i]))
         IN  IF tag_error(tag_result, acc) THEN CondErr
             ELSE IF acc THEN system_language_fold(toks, i + 1, acc, locale)
             ELSE LET r == locale_accepts_language_tag(locale, tag_result.tag)
                  IN  IF r.err THEN CondErr
                      ELSE system_language_fold(toks, i + 1, r.val, locale)

SystemLanguage_from_attribute(s, locale) ==
    system_language_fold(split(s, ","), 1, FALSE, locale)

\* The user's locale: Locale::new("de,en-US").
UserLocale == << "de", "en-US" >>

(***************************************************************************)
(* rsvg_internals/src/node.rs: the per-node state and set_atts             *)
(***************************************************************************)
VARIABLES
    data,       \* [Nodes -> NodeData]: each node's mutable fields
    css_rules,  \* the CssRules table: selector -> list of declarations
    inherited,  \* history: the values passed to each node's last cascade
    rendered,   \* the drawing context's log of the last Draw
    last,       \* history: the last operation and its arguments
    ops,        \* the number of operations so far
    call,       \* the last call of a function of cond.rs or text.rs
    text        \* the text document: its nodes and the state of its Chars nodes

vars == << data, css_rules, inherited, rendered, last, ops, call, text >>

\* No function called yet; no text document loaded.
NoCall == [fn |-> "none", arg |-> << >>, res |-> << >>]

NoText == << >>

\* Node::new
NodeData_new ==
    [specified |-> SpecifiedDefault,
     important_styles |-> {},
     result |-> Ok,
     transform |-> 0,
     values |-> ComputedDefault,
     cond |-> TRUE,
     style_attr |-> << >>,
     payload |-> "unset"]

is_in_error(d) == d.result.err

\* An attribute of the PropertyBag.
Attr(a, v) == [attr |-> a, value |-> v]

\* Matrix::parse_str.  A matrix is modelled by the x offset of a
\* translation (0 is the identity); multiplying matrices adds offsets.
Matrix_parse_str(value) ==
    CASE value = << "translate(1)" >> -> [ok |-> TRUE, matrix |-> 1]
      [] value = << "translate(2)" >> -> [ok |-> TRUE, matrix |-> 2]
      [] OTHER -> [ok |-> FALSE, matrix |-> 0]

\* Node::set_transform_attribute: the loop returns at the first transform
\* attribute of the bag.
set_transform_attribute(pbag, transform) ==
    LET idx == {i \in 1..Len(pbag) : pbag[i].attr = "transform"}
    IN  IF idx = {} THEN [res |-> Ok, transform |-> transform]
        ELSE LET m == Matrix_parse_str(pbag[Min(idx)].value)
             IN  IF m.ok THEN [res |-> Ok, transform |-> m.matrix]
                 ELSE [res |-> Err("transform"), transform |-> transform]

\* Node::save_style_attribute: push_str of every style attribute.
RECURSIVE save_style_attribute(_, _)
save_style_attribute(pbag, style_attr) ==
    IF pbag = << >> THEN style_attr
    ELSE save_style_attribute(
             Tail(pbag),
             IF Head(pbag).attr = "style" THEN style_attr \o Head(pbag).value
             ELSE style_attr)

CondAttrs == {"requiredExtensions", "requiredFeatures", "systemLanguage"}

\* The from_attribute of a conditional-processing attribute.
cond_from_attribute(a, locale) ==
    CASE a.attr = "requiredExtensions" -> RequiredExtensions_from_attribute(a.value)
      [] a.attr = "requiredFeatures" -> RequiredFeatures_from_attribute(a.value)
      [] OTHER -> SystemLanguage_from_attribute(a.value, locale)

\* The match guard `if cond` of the three conditional-processing arms.
cond_guard_never(attr, cond) == attr \in CondAttrs

cond_guard(attr, cond) == attr \in CondAttrs /\ cond

\* Node::parse_conditional_processing_attributes from attribute i on, cond
\* being the accumulated flag (stored into the node after each attribute).
RECURSIVE cond_loop(_, _, _, _)
cond_loop(pbag, i, cond, locale) ==
    IF i > Len(pbag) THEN [res |-> Ok, cond |-> cond]
    ELSE IF cond_guard(pbag[i].attr, cond)
         THEN LET r == cond_from_attribute(pbag[i], locale)
              IN  IF r.err THEN [res |-> Err(pbag[i].attr), cond |-> cond]
                  ELSE cond_loop(pbag, i + 1, r.val, locale)
         ELSE cond_loop(pbag, i + 1, cond, locale)

parse_conditional_processing_attributes(pbag, cond, locale) ==
    cond_loop(pbag, 1, cond, locale)

\* NodeTrait::set_atts of the element: it parses the element's own
\* attributes (width) and fails on the first invalid one.
RECURSIVE node_impl_set_atts(_, _)
node_impl_set_atts(pbag, payload) ==
    IF pbag = << >> THEN [res |-> Ok, payload |-> payload]
    ELSE IF Head(pbag).attr = "width"
         THEN IF Head(pbag).value = << "10" >>
              THEN node_impl_set_atts(Tail(pbag), "10")
              ELSE [res |-> Err("width"), payload |-> payload]
         ELSE node_impl_set_atts(Tail(pbag), payload)

\* SpecifiedValues::parse_presentation_attributes: every attribute that
\* names a property is parsed into the specified values, up to the first
\* value that does not parse.
RECURSIVE parse_presentation_attributes(_, _)
parse_presentation_attributes(pbag, specified) ==
    IF pbag = << >> THEN [res |-> Ok, specified |-> specified]
    ELSE LET a == Head(pbag)
         IN  IF a.attr \in Props
             THEN IF Len(a.value) = 1 /\ a.value[1] \in ValidValues(a.attr)
                  THEN parse_presentation_attributes(
                           Tail(pbag), [specified EXCEPT ![a.attr] = a.value[1]])
                  ELSE [res |-> Err(a.attr), specified |-> specified]
             ELSE parse_presentation_attributes(Tail(pbag), specified)

\* Node::set_presentation_attributes: the error is logged, not returned.
set_presentation_attributes_returns_error(pbag, specified) ==
    parse_presentation_attributes(pbag, specified)

set_presentation_attributes(pbag, specified) ==
    [res |-> Ok, specified |-> parse_presentation_attributes(pbag, specified).specified]

\* Result::and_then: the next step runs only after a success.
and_then_always(res) == TRUE

and_then(res) == ~res.err

\* Node::set_error
set_error(d, e) == [d EXCEPT !.result = e]

\* `if let Err(e) = .. { self.set_error(e) }`: only a failure is recorded.
record_result_always(d, res) == [d EXCEPT !.result = res]

record_result(d, res) == IF res.err THEN set_error(d, res) ELSE d

\* Node::set_atts on the node data d: the new data, and the steps that ran.
set_atts(d, pbag, locale) ==
    LET style_attr == save_style_attribute(pbag, d.style_attr)
        r1 == set_transform_attribute(pbag, d.transform)
        run2 == and_then(r1.res)
        r2 == IF run2
              THEN parse_conditional_processing_attributes(pbag, d.cond, locale)
              ELSE [res |-> r1.res, cond |-> d.cond]
        run3 == run2 /\ and_then(r2.res)
        r3 == IF run3 THEN node_impl_set_atts(pbag, d.payload)
              ELSE [res |-> r2.res, payload |-> d.payload]
        run4 == run3 /\ and_then(r3.res)
        r4 == IF run4 THEN set_presentation_attributes(pbag, d.specified)
              ELSE [res |-> r3.res, specified |-> d.specified]
        d1 == [d EXCEPT !.style_attr = style_attr,
                        !.transform = r1.transform,
                        !.cond = r2.cond,
                        !.payload = r3.payload,
                        !.specified = r4.specified]
    IN  [data |-> record_result(d1, r4.res),
         ran |-> << "transform" >> \o (IF run2 THEN << "cond" >> ELSE << >>)
                 \o (IF run3 THEN << "impl" >> ELSE << >>)
                 \o (IF run4 THEN << "pres" >> ELSE << >>)]

(***************************************************************************)
(* History of the last operation.                                          *)
(***************************************************************************)
NoOp ==
    [op |-> "new", node |-> NoNode, pbag |-> << >>, ran |-> << >>,
     values |-> ComputedDefault, again |-> FALSE]

\* All bags of at most MaxBag attributes drawn from an alphabet.
BagsOver(alphabet) == UNION {[1..k -> alphabet] : k \in 0..MaxBag}

SetAtts(n, pbag, locale) ==
    /\ ops < MaxOps
    /\ \E r \in {set_atts(data[n], pbag, locale)} :
           /\ data' = [data EXCEPT ![n] = r.data]
           /\ last' = [NoOp EXCEPT !.op = "set_atts", !.node = n,
                                   !.pbag = pbag, !.ran = r.ran]
    /\ ops' = ops + 1
    /\ UNCHANGED << css_rules, inherited, rendered, call, text >>

(***************************************************************************)
(* CSS: declarations, the rule table, set_style                            *)
(***************************************************************************)
Decl(p, v, imp) == [prop |-> p, value |-> v, important |-> imp]

\* SpecifiedValues::set_property_from_declaration on st, the pair of the
\* specified values and the important-properties set.
set_property_from_declaration(st, declaration) ==
    IF ~declaration.important /\ declaration.prop \in st.important_styles
    THEN st
    ELSE [specified |-> [st.specified EXCEPT ![declaration.prop] = declaration.value],
          important_styles |->
              IF declaration.important
              THEN st.important_styles \cup {declaration.prop}
              ELSE st.important_styles]

RECURSIVE apply_declarations(_, _)
apply_declarations(st, decl_list) ==
    IF decl_list = << >> THEN st
    ELSE apply_declarations(set_property_from_declaration(st, Head(decl_list)),
                            Tail(decl_list))

\* try_apply_by_selector: whether the table has the selector, and st after
\* its declarations.
try_apply_by_selector(rules, selector, st) ==
    IF selector \in DOMAIN rules
    THEN [found |-> TRUE, st |-> apply_declarations(st, rules[selector])]
    ELSE [found |-> FALSE, st |-> st]

\* The selectors format!() builds for an element name, a class token and an id.
SelStar == << "*" >>
SelTag(name) == << name >>
SelTagClassId(name, cls, id) == << name, "." >> \o cls \o << "#", id >>
SelClassId(cls, id) == << "." >> \o cls \o << "#", id >>
SelTagClass(name, cls) == << name, "." >> \o cls
SelClass(cls) == << "." >> \o cls
SelId(id) == << "#", id >>
SelTagId(name, id) == << name, "#", id >>

\* `found = found || try_apply_by_selector(..)`: the lookup is not made once
\* found is true.
or_try_eager(found, rules, selector, st) ==
    [found |-> found \/ try_apply_by_selector(rules, selector, st).found,
     st |-> try_apply_by_selector(rules, selector, st).st]

or_try(found, rules, selector, st) ==
    IF found THEN [found |-> TRUE, st |-> st]
    ELSE try_apply_by_selector(rules, selector, st)

\* `if !found`: the bare class selector is tried only when none of the
\* more specific ones was found.
falls_back_always(found) == TRUE

falls_back_to_class(found) == ~found

\* The body of the loop over the class tokens of set_css_styles.
class_token_styles(rules, name, id, cls, st) ==
    LET r1 == IF id # NoneStr
              THEN or_try(FALSE, rules, SelTagClassId(name, cls, id), st)
              ELSE [found |-> FALSE, st |-> st]
        r2 == IF id # NoneStr
              THEN or_try(r1.found, rules, SelClassId(cls, id), r1.st)
              ELSE r1
        r3 == or_try(r2.found, rules, SelTagClass(name, cls), r2.st)
    IN  IF falls_back_to_class(r3.found)
        THEN try_apply_by_selector(rules, SelClass(cls), r3.st).st
        ELSE r3.st

RECURSIVE class_styles(_, _, _, _, _)
class_styles(rules, name, id, toks, st) ==
    IF toks = << >> THEN st
    ELSE class_styles(rules, name, id, Tail(toks),
                      class_token_styles(rules, name, id, Head(toks), st))

\* The steps of set_css_styles, in the order they are applied.
css_universal_and_tag(rules, name, st) ==
    try_apply_by_selector(rules, SelTag(name),
        try_apply_by_selector(rules, SelStar, st).st).st

css_id_steps(rules, name, id, st) ==
    IF id # NoneStr
    THEN try_apply_by_selector(rules, SelTagId(name, id),
             try_apply_by_selector(rules, SelId(id), st).st).st
    ELSE st

\* Node::set_css_styles for node n with data d.
set_css_styles_id_first(n, d, rules) ==
    LET name == element_name(get_type(n))
        st0 == [specified |-> d.specified, important_styles |-> d.important_styles]
        st1 == css_id_steps(rules, name, get_id(n), st0)
        st2 == css_universal_and_tag(rules, name, st1)
        st3 == class_styles(rules, name, get_id(n), split_whitespace(get_class(n)), st2)
    IN  [d EXCEPT !.specified = st3.specified,
                  !.important_styles = st3.important_styles]

set_css_styles(n, d, rules) ==
    LET name == element_name(get_type(n))
        st0 == [specified |-> d.specified, important_styles |-> d.important_styles]
        st1 == css_universal_and_tag(rules, name, st0)
        st2 == class_styles(rules, name, get_id(n), split_whitespace(get_class(n)), st1)
        st3 == css_id_steps(rules, name, get_id(n), st2)
    IN  [d EXCEPT !.specified = st3.specified,
                  !.important_styles = st3.important_styles]

\* One declaration "name: value [!important]" of a style attribute, as
\* lexemes; ok is FALSE for text that holds no colon.
parse_declaration(piece) ==
    LET colon == {i \in 1..Len(piece) : piece[i] = ":"}
    IN  IF colon = {} THEN [ok |-> FALSE, name |-> << >>, value |-> << >>,
                            important |-> FALSE]
        ELSE LET c == Min(colon)
                 name == trim(SubSeq(piece, 1, c - 1))
                 rest == trim(SubSeq(piece, c + 1, Len(piece)))
                 imp == rest # << >> /\ rest[Len(rest)] = "!important"
                 value == IF imp THEN trim(SubSeq(rest, 1, Len(rest) - 1)) ELSE rest
             IN  [ok |-> TRUE, name |-> name, value |-> value, important |-> imp]

\* SpecifiedValues::parse_style_declarations over the pieces between
\* semicolons: a declaration of a known property is applied unless an
\* important one blocks it; a value that does not parse is an error.
RECURSIVE style_declarations_loop(_, _)
style_declarations_loop(pieces, st) ==
    IF pieces = << >> THEN [res |-> Ok, st |-> st]
    ELSE LET p == parse_declaration(Head(pieces))
         IN  IF ~p.ok \/ Len(p.name) # 1 \/ ~(p.name[1] \in Props)
             THEN style_declarations_loop(Tail(pieces), st)
             ELSE IF ~p.important /\ p.name[1] \in st.important_styles
             THEN style_declarations_loop(Tail(pieces), st)
             ELSE IF Len(p.value) = 1 /\ p.value[1] \in ValidValues(p.name[1])
             THEN style_declarations_loop(
                      Tail(pieces),
                      set_property_from_declaration(
                          st, Decl(p.name[1], p.value[1], p.important)))
             ELSE [res |-> Err(p.name[1]), st |-> st]

parse_style_declarations(style_attr, st) ==
    style_declarations_loop(split(style_attr, ";"), st)

\* Node::set_style_attribute: the saved style text is applied with the
\* node's important-properties set, then cleared.
style_important_styles_fresh(d) == {}

style_important_styles(d) == d.important_styles

set_style_attribute(d) ==
    IF d.style_attr # << >>
    THEN LET r == parse_style_declarations(
                      d.style_attr,
                      [specified |-> d.specified,
                       important_styles |-> style_important_styles(d)])
             d1 == [d EXCEPT !.specified = r.st.specified,
                             !.important_styles = r.st.important_styles,
                             !.style_attr = << >>]
         IN  IF r.res.err THEN set_error(d1, r.res) ELSE d1
    ELSE d

\* Node::set_style
set_style(n, d, rules) == set_style_attribute(set_css_styles(n, d, rules))

SetStyle(n) ==
    /\ ops < MaxOps
    /\ data' = [data EXCEPT ![n] = set_style(n, data[n], css_rules)]
    /\ last' = [NoOp EXCEPT !.op = "set_style", !.node = n,
                            !.pbag = IF data[n].style_attr = << >> THEN << >>
                                     ELSE << Attr("style", data[n].style_attr) >>]
    /\ ops' = ops + 1
    /\ UNCHANGED << css_rules, inherited, rendered, call, text >>

(***************************************************************************)
(* Cascade                                                                 *)
(***************************************************************************)
\* The values Node::cascade starts the merge from: the values passed in.
cascade_start_stored(d, values) == d.values

cascade_start(d, values) == values

\* The values Node::cascade hands to the children: the node's new computed
\* values v, not the values passed in.
child_values_passed(values, v) == values

child_values(values, v) == v

\* The nodes Node::cascade recurses into: the children of the node.
cascade_targets_and_siblings(n) ==
    children_seq(n)
        \o SortedSeq({m \in Nodes : m > n /\ m # Root /\ n # Root
                                     /\ Parent(m) = Parent(n)})

cascade_targets(n) == children_seq(n)

\* Node::cascade on st = [data, inherited]: the node's computed values are
\* the merge of the values passed in with its specified values, and each
\* child is cascaded from them.
RECURSIVE cascade(_, _, _)
RECURSIVE cascade_children(_, _, _)
cascade(st, n, values) ==
    LET v == to_computed_values(st.data[n].specified,
                                cascade_start(st.data[n], values))
        st1 == [data |-> [st.data EXCEPT ![n].values = v],
                inherited |-> [st.inherited EXCEPT ![n] = values]]
    IN  cascade_children(st1, cascade_targets(n), child_values(values, v))

cascade_children(st, seq, values) ==
    IF seq = << >> THEN st
    ELSE cascade_children(cascade(st, Head(seq), values), Tail(seq), values)

\* The values a cascade may start from: ComputedValues::default(), or the
\* computed values of a referencing element.
CascadeInputs == {ComputedDefault, [fill |-> "blue", overflow |-> "hidden"]}

Cascade(n, values) ==
    /\ ops < MaxOps
    /\ \E st \in {cascade([data |-> data, inherited |-> inherited], n, values)} :
           /\ data' = st.data
           /\ inherited' = st.inherited
    /\ last' = [NoOp EXCEPT !.op = "cascade", !.node = n, !.values = values,
                            !.again = (last.op = "cascade" /\ last.node = n
                                       /\ last.values = values)]
    /\ ops' = ops + 1
    /\ UNCHANGED << css_rules, rendered, call, text >>

(***************************************************************************)
(* Overridden properties and overflow                                      *)
(***************************************************************************)
\* NodeTrait::set_overridden_properties: nothing by default (Rect); the Svg
\* element sets fill to its default as a specified value.
node_impl_set_overridden_properties(t, specified) ==
    IF t = "Svg" THEN [specified EXCEPT !["fill"] = Initial("fill")]
    ELSE specified

set_overridden_properties(n, d) ==
    [d EXCEPT !.specified = node_impl_set_overridden_properties(get_type(n), d.specified)]

set_overflow_hidden(d) == [d EXCEPT !.specified["overflow"] = "hidden"]

SetOverriddenProperties(n) ==
    /\ ops < MaxOps
    /\ data' = [data EXCEPT ![n] = set_overridden_properties(n, data[n])]
    /\ last' = [NoOp EXCEPT !.op = "set_overridden_properties", !.node = n]
    /\ ops' = ops + 1
    /\ UNCHANGED << css_rules, inherited, rendered, call, text >>

SetOverflowHidden(n) ==
    /\ ops < MaxOps
    /\ data' = [data EXCEPT ![n] = set_overflow_hidden(data[n])]
    /\ last' = [NoOp EXCEPT !.op = "set_overflow_hidden", !.node = n]
    /\ ops' = ops + 1
    /\ UNCHANGED << css_rules, inherited, rendered, call, text >>

(***************************************************************************)
(* Drawing.  The drawing context dc holds the current matrix (ctm), the     *)
(* log of the element draw handlers invoked, the nodes Node::draw was      *)
(* called on (visited) and the elements whose draw handler fails with a    *)
(* RenderingError (fails).                                                  *)
(***************************************************************************)
NoDrawing ==
    [log |-> << >>, ok |-> TRUE, ctm |-> 0, drawn |-> FALSE,
     visited |-> << >>, fails |-> {}, mode |-> "FromNode"]

\* CascadedValues: the cascading mode (CascadedInner::FromNode holding the
\* node's stored computed values, or FromValues holding derived values)
\* and the values that get() returns.
CascadedValues_new_from_node(d, node) ==
    [mode |-> "FromNode", values |-> d[node].values]

\* CascadedValues::new_from_values: a clone of values merged with the
\* node's specified values; the node's stored values are not written.
CascadedValues_new_from_values(d, node, values) ==
    [mode |-> "FromValues",
     values |-> to_computed_values(d[node].specified, values)]

CascadedValues_new_always_from_node(d, cascaded, node) ==
    CascadedValues_new_from_node(d, node)

\* CascadedValues::new(&self, node) of the tree: the same cascading mode as
\* cascaded, for node.
CascadedValues_new_in_mode(d, cascaded, node) ==
    IF cascaded.mode = "FromNode"
    THEN [mode |-> "FromNode", values |-> d[node].values]
    ELSE CascadedValues_new_from_values(d, node, cascaded.values)

CascadedValues_get(cascaded) == cascaded.values

\* Node::get_cascaded_values.
get_cascaded_values(d, node) == CascadedValues_new_from_node(d, node)

\* The `?` of Node::draw_children: the failure of a child is returned.
child_failure_is_ignored(failed) == FALSE

child_failure_returns(failed) == failed

\* DrawingCtx::with_saved_matrix: the matrix is restored after the closure.
restore_matrix(saved, after) == saved

\* Whether Node::draw skips the node.
draw_skips_never(d) == FALSE

draw_skips(d) == is_in_error(d)

\* Node::draw, NodeTrait::draw of an element that draws its children, and
\* Node::draw_children.  Each returns the drawing context and whether the
\* result is Ok.
RECURSIVE draw(_, _, _, _)
RECURSIVE node_impl_draw(_, _, _, _)
RECURSIVE draw_children(_, _, _, _)
\* The branch of Node::draw for a node in error: a log message, and Ok.
draw_in_error_children(d, n, cascaded, dc) ==
    draw_children(d, children_seq(n), cascaded, dc)

draw_in_error(d, n, cascaded, dc) == [dc |-> dc, ok |-> TRUE]

draw(d, n, cascaded, dc0) ==
    LET dc == [dc0 EXCEPT !.visited = Append(@, n)] IN
    IF ~draw_skips(d[n])
    THEN LET r == node_impl_draw(d, n, cascaded,
                                 [dc EXCEPT !.ctm = dc.ctm + d[n].transform])
         IN  [dc |-> [r.dc EXCEPT !.ctm = restore_matrix(dc.ctm, r.dc.ctm)], ok |-> r.ok]
    ELSE draw_in_error(d, n, cascaded, dc)

\* The element's handler reads its values with cascaded.get().
node_impl_draw(d, n, cascaded, dc0) ==
    LET dc == [dc0 EXCEPT !.log = Append(dc0.log,
                                         [node |-> n, ctm |-> dc0.ctm,
                                          values |-> CascadedValues_get(cascaded)])]
    IN  IF n \in dc.fails THEN [dc |-> dc, ok |-> FALSE]
        ELSE draw_children(d, children_seq(n), cascaded, dc)

\* Node::draw_children with the parent's cascaded values: each child is
\* drawn with CascadedValues::new(cascaded, &child).
draw_children(d, seq, cascaded, dc) ==
    IF seq = << >> THEN [dc |-> dc, ok |-> TRUE]
    ELSE LET r == draw(d, Head(seq),
                       CascadedValues_new_in_mode(d, cascaded, Head(seq)), dc)
         IN  IF child_failure_returns(~r.ok) THEN r
             ELSE draw_children(d, Tail(seq), cascaded, r.dc)

NewDrawingCtx(fails) ==
    [log |-> << >>, ctm |-> 0, visited |-> << >>, fails |-> fails]

\* Drawing the tree from node n with the cascaded values cascaded and a
\* fresh drawing context in which the draw handlers of the elements of
\* fails fail; values are the values cascaded was derived from, if any.
DrawCascaded(n, cascaded, values, fails) ==
    /\ \E r \in {draw(data, n, cascaded, NewDrawingCtx(fails))} :
           rendered' = [log |-> r.dc.log, ok |-> r.ok, ctm |-> r.dc.ctm,
                        drawn |-> TRUE, visited |-> r.dc.visited,
                        fails |-> fails, mode |-> cascaded.mode]
    /\ last' = [NoOp EXCEPT !.op = "draw", !.node = n, !.values = values]
    /\ UNCHANGED << data, css_rules, inherited, ops, call, text >>

\* Drawing from the node's own cascade, node.get_cascaded_values().
DrawWith(n, fails) ==
    DrawCascaded(n, get_cascaded_values(data, n), ComputedDefault, fails)

\* Drawing with a backend that does not fail.
Draw(n) == DrawWith(n, {})

\* Drawing node n as the target of a referencing element whose computed
\* values are values: CascadedValues::new_from_values(&n, values).
DrawFromValues(n, values) ==
    DrawCascaded(n, CascadedValues_new_from_values(data, n, values), values, {})

(***************************************************************************)
(* Specifications                                                          *)
(***************************************************************************)
InitData == [n \in Nodes |-> NodeData_new]

T_ok == Attr("transform", << "translate(1)" >>)
T_bad == Attr("transform", << "bogus" >>)
T_ok2 == Attr("transform", << "translate(2)" >>)
RF_true == Attr("requiredFeatures", << "http://www.w3.org/TR/SVG11/feature#BasicFilter" >>)
RF_false == Attr("requiredFeatures", << "http://www.w3.org/TR/SVG11/feature#NotExisting" >>)
RE_false == Attr("requiredExtensions", << "http://test.org/NotExisting/1.0" >>)
SL_true == Attr("systemLanguage", << "de-LU" >>)
SL_false == Attr("systemLanguage", << "en-GB" >>)
SL_bad == Attr("systemLanguage", << "12345" >>)
W_ok == Attr("width", << "10" >>)
W_bad == Attr("width", << "-1" >>)
Fill_red == Attr("fill", << "red" >>)
Fill_bad == Attr("fill", << "bogus" >>)
Style_normal == Attr("style", << "fill", ":", "v_style" >>)
Style_important == Attr("style", << "fill", ":", "v_style", "!important" >>)
Style_bad == Attr("style", << "fill", ":", "bogus" >>)

\* The stylesheet of the tree specification: rect { fill: v_tag }.
TreeRules == [s \in {SelTag("rect")} |-> << Decl("fill", "v_tag", FALSE) >>]

\* The bags of the tree specification: one attribute each.
TreeBags == {<< T_ok >>, << T_bad >>, << Fill_red >>}

Init ==
    /\ data = InitData
    /\ css_rules = TreeRules
    /\ inherited = [n \in Nodes |-> ComputedDefault]
    /\ rendered = NoDrawing
    /\ last = NoOp
    /\ ops = 0
    /\ call = NoCall
    /\ text = NoText

Next ==
    \/ \E n \in Nodes, pbag \in TreeBags : SetAtts(n, pbag, UserLocale)
    \/ \E n \in Nodes : SetStyle(n)
    \/ \E n \in Nodes : SetOverriddenProperties(n)
    \/ \E n \in Nodes : SetOverflowHidden(n)
    \/ \E n \in Nodes, values \in CascadeInputs : Cascade(n, values)
    \/ \E n \in Nodes : Draw(n)

Spec == Init /\ [][Next]_vars

(***************************************************************************)
(* The attribute pass on one element: <rect class="a" id="x">.             *)
(***************************************************************************)
Focus == CHOOSE n \in Nodes : get_id(n) = "x"

AttsAlphabet == {T_ok, T_bad, RF_false, SL_bad, W_ok, W_bad, Fill_red}

NextAtts == \E pbag \in BagsOver(AttsAlphabet) : SetAtts(Focus, pbag, UserLocale)

SpecAtts == Init /\ [][NextAtts]_vars

\* The attribute pass with presentation attributes that parse or not.
PresAlphabet == {T_ok, T_bad, W_ok, SL_bad, Fill_red, Fill_bad}

NextPres == \E pbag \in BagsOver(PresAlphabet) : SetAtts(Focus, pbag, UserLocale)

SpecPres == Init /\ [][NextPres]_vars

\* The attribute pass with bags that repeat the transform attribute.
TransformAlphabet == {T_ok, T_ok2, T_bad, W_ok, Fill_red}

NextTransform ==
    \E pbag \in BagsOver(TransformAlphabet) : SetAtts(Focus, pbag, UserLocale)

SpecTransform == Init /\ [][NextTransform]_vars

\* The attribute pass, the style pass and the drawing of one element whose
\* attributes and inline style may be invalid.
ErrorAlphabet == {T_ok, T_bad, W_bad, Style_normal, Style_bad}

NextError ==
    \/ \E pbag \in BagsOver(ErrorAlphabet) : SetAtts(Focus, pbag, UserLocale)
    \/ SetStyle(Focus)
    \/ Draw(Focus)

SpecError == Init /\ [][NextError]_vars

CondAlphabet == {RF_true, RF_false, RE_false, SL_true, SL_false, SL_bad}

NextCond == \E pbag \in BagsOver(CondAlphabet) : SetAtts(Focus, pbag, UserLocale)

SpecCond == Init /\ [][NextCond]_vars

\* The attribute pass with conditional-processing attributes next to a
\* transform that does not parse.
EligibleAlphabet ==
    {T_bad, RF_true, RF_false, RE_false, SL_true, SL_false, SL_bad}

NextEligible ==
    \E pbag \in BagsOver(EligibleAlphabet) : SetAtts(Focus, pbag, UserLocale)

SpecEligible == Init /\ [][NextEligible]_vars

(***************************************************************************)
(* The style pass on one element, under every rule table that gives each   *)
(* selector of the element at most one declaration of fill, at most one of *)
(* them important.  The value of a declaration names its selector.         *)
(***************************************************************************)
FocusName == element_name(get_type(Focus))
FocusCls == << "a" >>

FocusSelectors ==
    {SelStar, SelTag(FocusName),
     SelTagClassId(FocusName, FocusCls, get_id(Focus)),
     SelClassId(FocusCls, get_id(Focus)),
     SelTagClass(FocusName, FocusCls), SelClass(FocusCls),
     SelId(get_id(Focus)), SelTagId(FocusName, get_id(Focus))}

SelValue(s) ==
    CASE s = SelStar -> "v_star"
      [] s = SelTag(FocusName) -> "v_tag"
      [] s = SelTagClassId(FocusName, FocusCls, get_id(Focus)) -> "v_tag_class_id"
      [] s = SelClassId(FocusCls, get_id(Focus)) -> "v_class_id"
      [] s = SelTagClass(FocusName, FocusCls) -> "v_tag_class"
      [] s = SelClass(FocusCls) -> "v_class"
      [] s = SelId(get_id(Focus)) -> "v_id"
      [] OTHER -> "v_tag_id"

RuleTable(S, I) == [s \in S |-> << Decl("fill", SelValue(s), s \in I) >>]

RuleTables ==
    {RuleTable(S, {}) : S \in SUBSET FocusSelectors}
    \cup UNION {{RuleTable(S, {i}) : i \in S} : S \in SUBSET FocusSelectors}

StyleBags ==
    {<< Fill_red >>, << Style_normal >>, << Style_important >>,
     << Fill_red, Style_normal >>, << Fill_red, Style_important >>}

InitStyle ==
    /\ data = InitData
    /\ css_rules \in RuleTables
    /\ inherited = [n \in Nodes |-> ComputedDefault]
    /\ rendered = NoDrawing
    /\ last = NoOp
    /\ ops = 0
    /\ call = NoCall
    /\ text = NoText

NextStyle ==
    \/ \E pbag \in StyleBags : SetAtts(Focus, pbag, UserLocale)
    \/ SetStyle(Focus)

SpecStyle == InitStyle /\ [][NextStyle]_vars

(***************************************************************************)
(* The style pass on <rect class="a" id="x"> and on <rect class="a b">,    *)
(* under every rule table over the class selectors of the two elements in  *)
(* which one selector, the marked one, declares overflow and every other   *)
(* one declares fill: overflow is set exactly when the marked selector is  *)
(* applied.                                                                *)
(***************************************************************************)
ClassedNodes == {n \in Nodes : get_class(n) # << >>}

\* The four selectors set_css_styles builds for a class token of node n.
TokenSelectors(n, cls) ==
    LET name == element_name(get_type(n))
    IN  (IF get_id(n) # NoneStr
         THEN {SelTagClassId(name, cls, get_id(n)), SelClassId(cls, get_id(n))}
         ELSE {})
        \cup {SelTagClass(name, cls), SelClass(cls)}

ClassTokens(n) ==
    {split_whitespace(get_class(n))[i] :
        i \in 1..Len(split_whitespace(get_class(n)))}

ClassSelectors ==
    UNION {UNION {TokenSelectors(n, cls) : cls \in ClassTokens(n)} : n \in ClassedNodes}

MarkedTable(S, m) ==
    [s \in S |-> IF s = m THEN << Decl("overflow", "hidden", FALSE) >>
                 ELSE << Decl("fill", "red", FALSE) >>]

InitClass ==
    /\ data = InitData
    /\ \E S \in SUBSET ClassSelectors : \E m \in S : css_rules = MarkedTable(S, m)
    /\ inherited = [n \in Nodes |-> ComputedDefault]
    /\ rendered = NoDrawing
    /\ last = NoOp
    /\ ops = 0
    /\ call = NoCall
    /\ text = NoText

NextClass == \E n \in ClassedNodes : SetStyle(n)

SpecClass == InitClass /\ [][NextClass]_vars

(***************************************************************************)
(* Cascades over a loaded tree: every node was created and given its       *)
(* specified values (no fill, fill red, overflow hidden or overflow        *)
(* inherit) and no cascade has run yet.                                    *)
(***************************************************************************)
SpecifiedProfiles ==
    {SpecifiedDefault,
     [SpecifiedDefault EXCEPT !["fill"] = "red"],
     [SpecifiedDefault EXCEPT !["overflow"] = "hidden"],
     [SpecifiedDefault EXCEPT !["overflow"] = Inherit]}

InitCascade ==
    /\ data \in [Nodes -> {[NodeData_new EXCEPT !.specified = sp] :
                               sp \in SpecifiedProfiles}]
    /\ css_rules = TreeRules
    /\ inherited = [n \in Nodes |-> ComputedDefault]
    /\ rendered = NoDrawing
    /\ last = NoOp
    /\ ops = 0
    /\ call = NoCall
    /\ text = NoText

NextCascade == \E n \in Nodes, values \in CascadeInputs : Cascade(n, values)

SpecCascade == InitCascade /\ [][NextCascade]_vars

(***************************************************************************)
(* Drawing a loaded tree from a node's own cascade or from substituted     *)
(* values, between cascades from the root or from its first child.         *)
(***************************************************************************)
DrawnProfiles ==
    {SpecifiedDefault,
     [SpecifiedDefault EXCEPT !["fill"] = "red"],
     [SpecifiedDefault EXCEPT !["overflow"] = Inherit]}

InitCascaded ==
    /\ data \in [Nodes -> {[NodeData_new EXCEPT !.specified = sp] :
                               sp \in DrawnProfiles}]
    /\ css_rules = TreeRules
    /\ inherited = [n \in Nodes |-> ComputedDefault]
    /\ rendered = NoDrawing
    /\ last = NoOp
    /\ ops = 0
    /\ call = NoCall
    /\ text = NoText

\* The values a referencing element may substitute for the cascade of node
\* n: any cascade input, or the stored computed values of n's parent.
SubstitutedValues(n) ==
    CascadeInputs \cup (IF n = Root THEN {} ELSE {data[Parent(n)].values})

NextCascaded ==
    \/ \E n \in {Root, 2}, values \in CascadeInputs : Cascade(n, values)
    \/ \E n \in Nodes : Draw(n)
    \/ \E n \in Nodes : \E values \in SubstitutedValues(n) :
           DrawFromValues(n, values)

SpecCascaded == InitCascaded /\ [][NextCascaded]_vars

(***************************************************************************)
(* Drawing a loaded tree in which any elements are in error, with a        *)
(* backend that fails the draw handlers of any elements.                   *)
(***************************************************************************)
InitDraw ==
    /\ \E E \in SUBSET Nodes :
            data = [n \in Nodes |->
                        IF n \in E THEN set_error(NodeData_new, Err("transform"))
                        ELSE NodeData_new]
    /\ css_rules = TreeRules
    /\ inherited = [n \in Nodes |-> ComputedDefault]
    /\ rendered = NoDrawing
    /\ last = NoOp
    /\ ops = 0
    /\ call = NoCall
    /\ text = NoText

NextDraw == \E n \in Nodes, fails \in SUBSET Nodes : DrawWith(n, fails)

SpecDraw == InitDraw /\ [][NextDraw]_vars

(***************************************************************************)
(* Calls of the three from_attribute functions of cond.rs, over bounded    *)
(* attribute values.                                                       *)
(***************************************************************************)
MaxLexemes == 4
MaxTokens == 2

IsWord(x) == x \notin {",", " "}

\* Two words are never adjacent lexemes: they would be one word.
WellFormed(s) ==
    \A i \in 1..(Len(s) - 1) : ~(IsWord(s[i]) /\ IsWord(s[i + 1]))

LangWords == {"de", "DE", "de-LU", "en", "en-US", "en-GB", "fr", "12345"}

LangInputs ==
    {s \in UNION {[1..k -> LangWords \cup {",", " "}] : k \in 0..MaxLexemes} :
        WellFormed(s)}

FeatureWords ==
    {IMPLEMENTED_FEATURES[i] : i \in 1..Len(IMPLEMENTED_FEATURES)}
    \cup {"http://www.w3.org/TR/SVG11/feature#NotExisting",
          "http://test.org/NotExisting/1.0",
          "http://www.w3.org/TR/SVG11/feature#Text",
          "org.w3c.svg.static.x"}

\* The tokens joined by single spaces.
RECURSIVE JoinSpace(_)
JoinSpace(toks) ==
    IF toks = << >> THEN << >>
    ELSE IF Len(toks) = 1 THEN << toks[1] >>
    ELSE << toks[1], " " >> \o JoinSpace(Tail(toks))

FeatureInputs ==
    {JoinSpace(toks) : toks \in UNION {[1..k -> FeatureWords] : k \in 0..MaxTokens}}

EvalSystemLanguage(s) ==
    /\ call = NoCall
    /\ call' = [fn |-> "SystemLanguage", arg |-> s,
                res |-> SystemLanguage_from_attribute(s, UserLocale)]
    /\ UNCHANGED << data, css_rules, inherited, rendered, last, ops, text >>

EvalRequiredFeatures(s) ==
    /\ call = NoCall
    /\ call' = [fn |-> "RequiredFeatures", arg |-> s,
                res |-> RequiredFeatures_from_attribute(s)]
    /\ UNCHANGED << data, css_rules, inherited, rendered, last, ops, text >>

EvalRequiredExtensions(s) ==
    /\ call = NoCall
    /\ call' = [fn |-> "RequiredExtensions", arg |-> s,
                res |-> RequiredExtensions_from_attribute(s)]
    /\ UNCHANGED << data, css_rules, inherited, rendered, last, ops, text >>

\* One call in each behaviour.
NextCondFn ==
    \/ call = NoCall /\ \E s \in LangInputs : EvalSystemLanguage(s)
    \/ call = NoCall /\ \E s \in FeatureInputs : EvalRequiredFeatures(s)
    \/ call = NoCall /\ \E s \in FeatureInputs : EvalRequiredExtensions(s)

SpecCondFn == Init /\ [][NextCondFn]_vars

(***************************************************************************)
(* text.rs: the text document.  A document is a function from node ids to  *)
(* node records; node ids are in document (depth-first) order, so the      *)
(* children of a node in order are its children by increasing id.  A text  *)
(* is a sequence of one-character strings.                                  *)
(***************************************************************************)
MaxTextNodes == 4

TextNodes == 1..MaxTextNodes

TextRoot == 1

MissingId == 0

OptNone == [some |-> FALSE, v |-> 0]

Some(v) == [some |-> TRUE, v |-> v]

NoString == [some |-> FALSE, v |-> << >>]

SomeString(s) == [some |-> TRUE, v |-> s]

\* The computed values of an element, as far as text.rs reads them; owner
\* is the element they were computed for.
TextValues(n, displayed, space) ==
    [owner |-> n, displayed |-> displayed, xml_space |-> space]

text_children(doc, n) ==
    SortedSeq({m \in DOMAIN doc : doc[m].parent = n})

RECURSIVE IsTextAncestorOrSelf(_, _, _)
IsTextAncestorOrSelf(doc, a, n) ==
    IF n = a THEN TRUE
    ELSE IF n = TextRoot THEN FALSE
    ELSE IsTextAncestorOrSelf(doc, a, doc[n].parent)

previous_sibling_is_some(doc, n) ==
    \E m \in DOMAIN doc : doc[m].parent = doc[n].parent /\ m < n

next_sibling_is_some(doc, n) ==
    \E m \in DOMAIN doc : doc[m].parent = doc[n].parent /\ m > n

is_displayed(values) == values.displayed

\* crate::space::xml_space_normalize: preserve keeps the text verbatim;
\* default collapses runs of whitespace and trims an edge unless a sibling
\* lies on that side.
RECURSIVE collapse_whitespace(_)
collapse_whitespace(s) ==
    IF Len(s) <= 1 THEN s
    ELSE IF s[1] = " " /\ s[2] = " " THEN collapse_whitespace(Tail(s))
    ELSE << s[1] >> \o collapse_whitespace(Tail(s))

normalize_default(mode, s) ==
    LET c == collapse_whitespace(s)
        l == IF mode.has_element_before THEN c ELSE trim_start(c)
    IN IF mode.has_element_after THEN l ELSE trim_end(l)

xml_space_normalize(mode, s) ==
    IF mode.kind = "preserve" THEN s ELSE normalize_default(mode, s)

NormalizePreserve ==
    [kind |-> "preserve", has_element_before |-> FALSE, has_element_after |-> FALSE]

NormalizeDefault(before, after) ==
    [kind |-> "default", has_element_before |-> before, has_element_after |-> after]

(***************************************************************************)
(* text.rs: Chars.  computed counts the normalizations since the last     *)
(* append (history).                                                        *)
(***************************************************************************)
Chars_new(initial_text) ==
    [string |-> initial_text, space_normalized |-> NoString, computed |-> 0]

Chars_append_keeps_cache(c, s) ==
    [string |-> c.string \o s, space_normalized |-> c.space_normalized,
     computed |-> 0]

Chars_append(c, s) ==
    [string |-> c.string \o s, space_normalized |-> NoString, computed |-> 0]

normalize_mode(doc, node, values) ==
    IF values.xml_space = "default"
    THEN NormalizeDefault(previous_sibling_is_some(doc, node),
                          next_sibling_is_some(doc, node))
    ELSE NormalizePreserve

cache_is_reused(normalized) == normalized.some

Chars_ensure_normalized_string(c, doc, node, values) ==
    IF cache_is_reused(c.space_normalized) THEN c
    ELSE [c EXCEPT
            !.space_normalized =
                SomeString(xml_space_normalize(normalize_mode(doc, node, values),
                                               c.string)),
            !.computed = @ + 1]

Span_new(txt, values, dx, dy, depth) ==
    [text |-> txt, values |-> values, dx |-> dx, dy |-> dy, depth |-> depth]

NoSpan == [some |-> FALSE, v |-> << >>]

\* The Option<Span> that make_span returns, for a Chars whose normalized
\* string is present.
Chars_make_span(c, values, dx, dy, depth) ==
    IF c.space_normalized.v = << >> THEN NoSpan
    ELSE [some |-> TRUE,
          v |-> Span_new(c.space_normalized.v, values, dx, dy, depth)]

Chunk_new(values, x, y) ==
    [values |-> values, x |-> x, y |-> y, spans |-> << >>]

\* The state of a walk: the chunks built so far and the Chars nodes.
Chars_to_chunks(st, doc, node, values, dx, dy, depth) ==
    LET c    == Chars_ensure_normalized_string(st.chars[node], doc, node, values)
        span == Chars_make_span(c, values, dx, dy, depth)
        num_chunks == Len(st.chunks)
    IN [chunks |->
            IF span.some
            THEN [st.chunks EXCEPT ![num_chunks].spans = Append(@, span.v)]
            ELSE st.chunks,
        chars |-> [st.chars EXCEPT ![node] = c]]

(***************************************************************************)
(* text.rs: chunk construction.                                            *)
(***************************************************************************)
\* AcquiredNodes::acquire: the node of that id, unless there is none or
\* the acquirer refuses the reference.
acquire(t, link) ==
    IF link \in DOMAIN t.doc /\ t.acquirer_accepts
    THEN [ok |-> TRUE, node |-> link]
    ELSE [ok |-> FALSE, node |-> MissingId]

RECURSIVE extract_chars_children_to_chunks_recursively(_, _, _, _, _, _)
extract_chars_children_to_chunks_recursively(st, doc, node, i, values, depth) ==
    LET kids == text_children(doc, node) IN
    IF i > Len(kids) THEN st
    ELSE LET child == kids[i]
             st1 == IF doc[child].kind = "chars"
                    THEN Chars_to_chunks(st, doc, child, values, 0, 0, depth)
                    ELSE extract_chars_children_to_chunks_recursively(
                             st, doc, child, 1, values, depth + 1)
         IN extract_chars_children_to_chunks_recursively(
                st1, doc, node, i + 1, values, depth)

\* The else branch of the acquisition: a log message only.
tref_not_acquired_empties(st) ==
    [st EXCEPT !.chunks = Append(@, Chunk_new(st.chunks[1].values, OptNone, OptNone))]

tref_not_acquired(st) == st

\* A flattening that also dereferences the trefs it finds inside the
\* target, one level deep.
RECURSIVE follow_inner_trefs(_, _, _, _, _)
follow_inner_trefs(t, st, inner, values, depth) ==
    IF inner = << >> THEN st
    ELSE follow_inner_trefs(
             t,
             extract_chars_children_to_chunks_recursively(
                 st, t.doc, t.doc[Head(inner)].link.v, 1, values, depth + 1),
             Tail(inner), values, depth)

TRef_to_chunks_following(t, st, node, cascaded, depth) ==
    LET link     == t.doc[node].link
        acquired == acquire(t, link.v)
        inner    == SortedSeq({r \in DOMAIN t.doc :
                        /\ t.doc[r].kind = "tref"
                        /\ IsTextAncestorOrSelf(t.doc, acquired.node, r)
                        /\ t.doc[r].link.some
                        /\ t.doc[r].link.v \in DOMAIN t.doc})
    IN IF link.some /\ is_displayed(cascaded) /\ acquired.ok
       THEN follow_inner_trefs(
                t,
                extract_chars_children_to_chunks_recursively(
                    st, t.doc, acquired.node, 1, cascaded, depth),
                inner, cascaded, depth)
       ELSE st

TRef_to_chunks_opening(t, st, node, cascaded, depth) ==
    LET link     == t.doc[node].link
        acquired == acquire(t, link.v)
    IN IF link.some /\ is_displayed(cascaded) /\ acquired.ok
       THEN extract_chars_children_to_chunks_recursively(
                [st EXCEPT !.chunks = Append(@, Chunk_new(cascaded, OptNone, OptNone))],
                t.doc, acquired.node, 1, cascaded, depth)
       ELSE st

TRef_to_chunks(t, st, node, cascaded, depth) ==
    LET link == t.doc[node].link IN
    IF ~link.some THEN st
    ELSE IF ~is_displayed(cascaded) THEN st
    ELSE LET acquired == acquire(t, link.v) IN
         IF acquired.ok
         THEN extract_chars_children_to_chunks_recursively(
                  st, t.doc, acquired.node, 1, cascaded, depth)
         ELSE tref_not_acquired(st)

opens_chunk_x_only(x, y) == x.some

opens_chunk(x, y) == x.some \/ y.some

\* CascadedValues::new(cascaded, &child).get(): the child's own values.
CascadedValues_new(doc, child) == doc[child].values

RECURSIVE children_to_chunks(_, _, _, _, _, _, _, _)
RECURSIVE TSpan_to_chunks(_, _, _, _, _, _, _)
children_to_chunks(t, st, node, i, cascaded, dx, dy, depth) ==
    LET kids == text_children(t.doc, node) IN
    IF i > Len(kids) THEN st
    ELSE LET child == kids[i]
             kind  == t.doc[child].kind
             st1 ==
                CASE kind = "chars" ->
                        Chars_to_chunks(st, t.doc, child, cascaded, dx, dy, depth)
                  [] kind = "tspan" ->
                        TSpan_to_chunks(t, st, child,
                                        CascadedValues_new(t.doc, child),
                                        dx, dy, depth + 1)
                  [] kind = "tref" ->
                        TRef_to_chunks(t, st, child,
                                       CascadedValues_new(t.doc, child), depth + 1)
                  [] OTHER -> st
         IN children_to_chunks(t, st1, node, i + 1, cascaded, dx, dy, depth)

TSpan_to_chunks(t, st, node, cascaded, dx, dy, depth) ==
    IF ~is_displayed(cascaded) THEN st
    ELSE LET x == t.doc[node].x
             y == t.doc[node].y
             span_dx == dx + t.doc[node].dx
             span_dy == dy + t.doc[node].dy
             st1 == IF opens_chunk(x, y)
                    THEN [st EXCEPT !.chunks = Append(@, Chunk_new(cascaded, x, y))]
                    ELSE st
         IN children_to_chunks(t, st1, node, 1, cascaded, span_dx, span_dy, depth)

Text_make_chunks(t, node, cascaded, x, y) ==
    LET st0 == [chunks |-> << Chunk_new(cascaded, Some(x), Some(y)) >>,
                chars |-> t.chars]
    IN children_to_chunks(t, st0, node, 1, cascaded,
                          t.doc[node].dx, t.doc[node].dy, 0)

(***************************************************************************)
(* Specification of chunk construction: a bounded text document, then one  *)
(* make_chunks over it.                                                     *)
(***************************************************************************)
Letters == << "a", "b", "c", "d", "e", "f", "g", "h" >>

TextX == 3

TextY == 4

TextNode(kind, parent, x, y, dx, values, link, string) ==
    [kind |-> kind, parent |-> parent, x |-> x, y |-> y, dx |-> dx, dy |-> 0,
     values |-> values, link |-> link, string |-> string]

RootNode ==
    TextNode("text", MissingId, Some(TextX), Some(TextY), 2,
             TextValues(TextRoot, TRUE, "default"), OptNone, << >>)

CharsNodes(n, p) ==
    {TextNode("chars", p, OptNone, OptNone, 0,
              TextValues(n, TRUE, "default"), OptNone, s) :
        s \in {<< Letters[n] >>, << " " >>}}

TSpanNodes(n, p) ==
    {TextNode("tspan", p, xy[1], xy[2], 1,
              TextValues(n, TRUE, "default"), OptNone, << >>) :
        xy \in {<< OptNone, OptNone >>, << Some(10), OptNone >>,
                << OptNone, Some(20) >>}}
    \cup {TextNode("tspan", p, Some(10), OptNone, 1,
                    TextValues(n, FALSE, "default"), OptNone, << >>)}

TRefNodes(n, p) ==
    {TextNode("tref", p, OptNone, OptNone, 0,
              TextValues(n, TRUE, "default"), link, << >>) :
        link \in {OptNone, Some(MissingId), Some(TextRoot)}}
    \cup {TextNode("tref", p, OptNone, OptNone, 0,
                    TextValues(n, FALSE, "default"), Some(TextRoot), << >>)}

OtherNodes(n, p) ==
    {TextNode("other", p, OptNone, OptNone, 0,
              TextValues(n, TRUE, "default"), OptNone, << >>)}

\* The parents the next node in document order can have: the node before
\* it or one of that node's ancestors, if it is an element with content.
NextParents(doc) ==
    {p \in DOMAIN doc :
        /\ IsTextAncestorOrSelf(doc, p, Len(doc))
        /\ doc[p].kind \in {"text", "tspan", "other"}}

\* The documents of k nodes, each node placed under one of the parents
\* document order allows.
RECURSIVE TextDocs(_)
TextDocs(k) ==
    IF k = 1 THEN {<< RootNode >>}
    ELSE {d \in {Append(doc, nd) :
                    doc \in TextDocs(k - 1),
                    nd \in UNION {CharsNodes(k, p) \cup TSpanNodes(k, p)
                                    \cup TRefNodes(k, p) \cup OtherNodes(k, p) :
                                  p \in 1..(k - 1)}} :
            d[k].parent \in NextParents(SubSeq(d, 1, k - 1))}

LoadText(doc, accepts) ==
    [doc |-> doc,
     chars |-> [n \in DOMAIN doc |-> Chars_new(doc[n].string)],
     acquirer_accepts |-> accepts]

HasLiveLink(doc) ==
    \E n \in DOMAIN doc : doc[n].link.some /\ doc[n].link.v \in DOMAIN doc

\* The acquirer's refusal matters only where a reference has a target.
TextInput(doc, accepts) == IF accepts THEN TRUE ELSE HasLiveLink(doc)

InitText ==
    /\ data = InitData
    /\ css_rules = TreeRules
    /\ inherited = [n \in Nodes |-> ComputedDefault]
    /\ rendered = NoDrawing
    /\ last = NoOp
    /\ ops = 0
    /\ call = NoCall
    /\ \E doc \in TextDocs(MaxTextNodes), accepts \in BOOLEAN :
            /\ TextInput(doc, accepts)
            /\ text = LoadText(doc, accepts)

MakeChunks ==
    /\ call = NoCall
    /\ \E st \in {Text_make_chunks(text, TextRoot, text.doc[TextRoot].values,
                                    text.doc[TextRoot].x.v, text.doc[TextRoot].y.v)} :
          /\ call' = [fn |-> "make_chunks", arg |-> << >>, res |-> st.chunks]
          /\ text' = [text EXCEPT !.chars = st.chars]
    /\ UNCHANGED << data, css_rules, inherited, rendered, last, ops >>

NextText == MakeChunks

SpecText == InitText /\ [][NextText]_vars

(***************************************************************************)
(* text.rs: measurement and positioning.  A length is an integer number of *)
(* half user units, so that half of a whole advance is exact.               *)
(***************************************************************************)
U(n) == 2 * n

MaxChunks == 2

MaxSpans == 2

MaxAdvance == 3

LayoutValues(anchor, mode) == [text_anchor |-> anchor, writing_mode |-> mode]

is_vertical(writing_mode) == writing_mode = "vertical"

unwrap_or(opt, default) == IF opt.some THEN opt.v ELSE default

\* The width pango gives the span's layout.
layout_size(span) == span.w

span_advance(vertical, w) == IF vertical THEN << 0, w >> ELSE << w, 0 >>

MeasuredSpan_from_span(span) ==
    [values |-> span.values,
     baseline |-> span.baseline,
     advance |-> span_advance(is_vertical(span.values.writing_mode), layout_size(span)),
     dx |-> span.dx,
     dy |-> span.dy]

RECURSIVE fold_advance(_, _)
fold_advance(acc, spans) ==
    IF spans = << >> THEN acc
    ELSE fold_advance(<< acc[1] + Head(spans).advance[1],
                         acc[2] + Head(spans).advance[2] >>, Tail(spans))

MeasuredChunk_from_chunk(chunk) ==
    LET measured_spans ==
            [i \in 1..Len(chunk.spans) |-> MeasuredSpan_from_span(chunk.spans[i])]
    IN [values |-> chunk.values, x |-> chunk.x, y |-> chunk.y,
        advance |-> fold_advance(<< 0, 0 >>, measured_spans),
        spans |-> measured_spans]

text_anchor_advance_on_x(anchor, writing_mode, advance) ==
    CASE anchor = "start"  -> << 0, 0 >>
      [] anchor = "middle" -> << (0 - advance[1]) \div 2, 0 >>
      [] anchor = "end"    -> << 0 - advance[1], 0 >>

text_anchor_advance(anchor, writing_mode, advance) ==
    IF is_vertical(writing_mode)
    THEN CASE anchor = "start"  -> << 0, 0 >>
           [] anchor = "middle" -> << 0, (0 - advance[2]) \div 2 >>
           [] anchor = "end"    -> << 0, 0 - advance[2] >>
    ELSE CASE anchor = "start"  -> << 0, 0 >>
           [] anchor = "middle" -> << (0 - advance[1]) \div 2, 0 >>
           [] anchor = "end"    -> << 0 - advance[1], 0 >>

next_span(start, advance, d) == start + advance + d

PositionedSpan_from_measured(measured, x, y) ==
    LET offset == measured.baseline
        dx == measured.dx
        dy == measured.dy
    IN [values |-> measured.values,
        position |-> << x, y >>,
        rendered_position |->
            IF is_vertical(measured.values.writing_mode)
            THEN << x + offset + dx, y + dy >>
            ELSE << x + dx, y - offset + dy >>,
        next_span_x |-> next_span(x, measured.advance[1], dx),
        next_span_y |-> next_span(y, measured.advance[2], dy)]

RECURSIVE position_spans(_, _, _, _)
position_spans(spans, x, y, positioned) ==
    IF spans = << >>
    THEN [next_chunk_x |-> x, next_chunk_y |-> y, spans |-> positioned]
    ELSE LET positioned_span == PositionedSpan_from_measured(Head(spans), x, y)
         IN position_spans(Tail(spans), positioned_span.next_span_x,
                           positioned_span.next_span_y,
                           Append(positioned, positioned_span))

PositionedChunk_from_measured(measured, x, y) ==
    LET adjusted_advance ==
            text_anchor_advance(measured.values.text_anchor,
                                measured.values.writing_mode, measured.advance)
    IN position_spans(measured.spans, x + adjusted_advance[1],
                      y + adjusted_advance[2], << >>)

chunk_start_explicit_only(explicit, running) == unwrap_or(explicit, 0)

chunk_start(explicit, running) == unwrap_or(explicit, running)

(***************************************************************************)
(* Specification of positioning: the loop of Text::draw over the chunks,   *)
(* one chunk per step, and text_anchor_advance on its own.                  *)
(***************************************************************************)
Anchors == {"start", "middle", "end"}

WritingModes == {"horizontal", "vertical"}

Advances == {U(k) : k \in 0..MaxAdvance} \cup {U(100)}

LayoutSpans(values) ==
    {[values |-> values, baseline |-> U(1), w |-> U(100), dx |-> U(1), dy |-> U(2)]}

\* Chunks of up to MaxSpans spans of one kind, with the chunk's values.
LayoutChunks ==
    UNION {{[values |-> values, x |-> xy[1], y |-> xy[2],
             spans |-> [i \in 1..k |-> span]] :
                xy \in {<< OptNone, OptNone >>, << Some(U(50)), OptNone >>,
                        << OptNone, Some(U(20)) >>},
                k \in 0..MaxSpans,
                span \in LayoutSpans(values)} :
           values \in {LayoutValues(a, m) : a \in Anchors, m \in WritingModes}}

InitLayout ==
    /\ data = InitData
    /\ css_rules = TreeRules
    /\ inherited = [n \in Nodes |-> ComputedDefault]
    /\ rendered = NoDrawing
    /\ last = NoOp
    /\ ops = 0
    /\ call = NoCall
    /\ text = [x |-> U(TextX), y |-> U(TextY), positioned |-> 0]

\* One iteration of the positioning loop.
PositionChunk(chunk) ==
    /\ text.positioned < MaxChunks
    /\ LET measured   == MeasuredChunk_from_chunk(chunk)
           chunk_x    == chunk_start(measured.x, text.x)
           chunk_y    == chunk_start(measured.y, text.y)
           positioned == PositionedChunk_from_measured(measured, chunk_x, chunk_y)
       IN /\ call' = [fn |-> "position",
                      arg |-> [chunk |-> measured, x |-> text.x, y |-> text.y],
                      res |-> positioned]
          /\ text' = [x |-> positioned.next_chunk_x, y |-> positioned.next_chunk_y,
                      positioned |-> text.positioned + 1]
    /\ UNCHANGED << data, css_rules, inherited, rendered, last, ops >>

AnchorAdvance(anchor, writing_mode, advance) ==
    /\ call.fn = "none"
    /\ call' = [fn |-> "text_anchor_advance",
                arg |-> [anchor |-> anchor, writing_mode |-> writing_mode,
                         advance |-> advance],
                res |-> text_anchor_advance(anchor, writing_mode, advance)]
    /\ UNCHANGED << data, css_rules, inherited, rendered, last, ops, text >>

NextLayout ==
    \/ \E chunk \in LayoutChunks : PositionChunk(chunk)
    \/ \E a \in Anchors, m \in WritingModes, adv \in Advances \X Advances :
            AnchorAdvance(a, m, adv)

SpecLayout == InitLayout /\ [][NextLayout]_vars

(***************************************************************************)
(* Specification of a Chars node: created with some text next to some      *)
(* siblings, then appended to and made into spans by callers whose values  *)
(* differ in xml:space (its parent, a tref that refers to it).              *)
(***************************************************************************)
MaxTextLen == 3

CharPieces == {<< "a" >>, << " " >>}

SiblingOf(n) ==
    TextNode("other", TextRoot, OptNone, OptNone, 0,
             TextValues(n, TRUE, "default"), OptNone, << >>)

CharsOf(n, s) ==
    TextNode("chars", TextRoot, OptNone, OptNone, 0,
             TextValues(n, TRUE, "default"), OptNone, s)

\* The Chars alone, after an element, before one, and between two.
CharsDocs ==
    UNION {{<< RootNode, CharsOf(2, s) >>,
            << RootNode, SiblingOf(2), CharsOf(3, s) >>,
            << RootNode, CharsOf(2, s), SiblingOf(3) >>,
            << RootNode, SiblingOf(2), CharsOf(3, s), SiblingOf(4) >>} :
           s \in CharPieces}

TheChars(doc) == CHOOSE n \in DOMAIN doc : doc[n].kind = "chars"

CallerValues == {TextValues(TextRoot, TRUE, space) : space \in {"default", "preserve"}}

InitChars ==
    /\ data = InitData
    /\ css_rules = TreeRules
    /\ inherited = [n \in Nodes |-> ComputedDefault]
    /\ rendered = NoDrawing
    /\ last = NoOp
    /\ ops = 0
    /\ call = NoCall
    /\ \E doc \in CharsDocs : text = LoadText(doc, TRUE)

CharsAppend(s) ==
    LET n == TheChars(text.doc) IN
    /\ Len(text.chars[n].string) + Len(s) <= MaxTextLen
    /\ text' = [text EXCEPT !.chars[n] = Chars_append(@, s)]
    /\ call' = [fn |-> "append", arg |-> [s |-> s], res |-> NoSpan]
    /\ UNCHANGED << data, css_rules, inherited, rendered, last, ops >>

\* Chars::make_span as Chars::to_chunks calls it.
CharsMakeSpan(values) ==
    LET n == TheChars(text.doc)
        c == Chars_ensure_normalized_string(text.chars[n], text.doc, n, values)
    IN /\ text' = [text EXCEPT !.chars[n] = c]
       /\ call' = [fn |-> "make_span",
                   arg |-> [values |-> values, before |-> text.chars[n]],
                   res |-> Chars_make_span(c, values, 0, 0, 0)]
       /\ UNCHANGED << data, css_rules, inherited, rendered, last, ops >>

NextChars ==
    \/ \E s \in CharPieces : CharsAppend(s)
    \/ \E values \in CallerValues : CharsMakeSpan(values)

SpecChars == InitChars /\ [][NextChars]_vars

(***************************************************************************)
(* text.rs: Draw for Text.  The shaping backend gives each span a layout   *)
(* (its width and baseline); the drawing backend answers each draw request *)
(* with the box of the span, or with a failure.  The coordinates of the    *)
(* document are taken as numbers of half user units.                       *)
(***************************************************************************)
\* create_pango_layout: the span with the width and baseline of its layout.
create_pango_layout(span) ==
    [values |-> span.values, baseline |-> U(1), w |-> U(Len(span.text)),
     dx |-> span.dx, dy |-> span.dy]

\* The chunk as MeasuredChunk::from_chunk sees it: each span with its layout.
with_layouts(chunk) ==
    [chunk EXCEPT !.spans = [i \in 1..Len(chunk.spans) |->
                                create_pango_layout(chunk.spans[i])]]

\* The loop of Text::draw that positions the measured chunks.
RECURSIVE position_chunks(_, _, _, _)
position_chunks(measured_chunks, x, y, positioned_chunks) ==
    IF measured_chunks = << >> THEN positioned_chunks
    ELSE LET chunk      == Head(measured_chunks)
             chunk_x    == chunk_start(chunk.x, x)
             chunk_y    == chunk_start(chunk.y, y)
             positioned == PositionedChunk_from_measured(chunk, chunk_x, chunk_y)
         IN position_chunks(Tail(measured_chunks), positioned.next_chunk_x,
                            positioned.next_chunk_y,
                            Append(positioned_chunks, positioned))

\* BoundingBox: empty, or the rectangle from (x0, y0) to (x1, y1).
empty_bbox == [empty |-> TRUE, x0 |-> 0, y0 |-> 0, x1 |-> 0, y1 |-> 0]

Smaller(a, b) == IF a <= b THEN a ELSE b

Larger(a, b) == IF a >= b THEN a ELSE b

BoundingBox_insert(bbox, src) ==
    IF src.empty THEN bbox
    ELSE IF bbox.empty THEN src
    ELSE [empty |-> FALSE,
          x0 |-> Smaller(bbox.x0, src.x0), y0 |-> Smaller(bbox.y0, src.y0),
          x1 |-> Larger(bbox.x1, src.x1), y1 |-> Larger(bbox.y1, src.y1)]

\* layout::TextSpan: the draw request PositionedSpan::draw builds.
TextSpan(span) ==
    [x |-> span.rendered_position[1], y |-> span.rendered_position[2],
     values |-> span.values]

\* DrawingCtx::draw_text_span, when it succeeds: the box of the span.
draw_text_span(request) ==
    [empty |-> FALSE, x0 |-> request.x, y0 |-> request.y,
     x1 |-> request.x + U(1), y1 |-> request.y + U(1)]

\* The `?` on the result of span.draw: a failure ends Text::draw.
span_failure_is_ignored(failed) == FALSE

span_failure_returns(failed) == failed

\* The loops of Text::draw over the positioned chunks and their spans.  acc
\* holds the requests submitted, the boxes returned, bbox and the result;
\* the backend fails the request of ordinal fails_at (0: none).
RECURSIVE draw_spans(_, _, _)
draw_spans(spans, fails_at, acc) ==
    IF spans = << >> THEN acc
    ELSE LET request  == TextSpan(Head(spans))
             requests == Append(acc.requests, request)
         IN IF span_failure_returns(Len(requests) = fails_at)
            THEN [acc EXCEPT !.requests = requests, !.ok = FALSE]
            ELSE LET span_bbox == draw_text_span(request)
                 IN draw_spans(Tail(spans), fails_at,
                               [acc EXCEPT !.requests = requests,
                                           !.boxes = Append(@, span_bbox),
                                           !.bbox = BoundingBox_insert(@, span_bbox)])

RECURSIVE draw_positioned_chunks(_, _, _)
draw_positioned_chunks(chunks, fails_at, acc) ==
    IF chunks = << >> THEN acc
    ELSE LET r == draw_spans(Head(chunks).spans, fails_at, acc)
         IN IF ~r.ok THEN r
            ELSE draw_positioned_chunks(Tail(chunks), fails_at, r)

\* Draw for Text: the result, with the chunks, the positioned chunks and
\* the Chars nodes after the walk.
Text_draw(t, node, cascaded, fails_at) ==
    LET x  == t.doc[node].x.v
        y  == t.doc[node].y.v
        st == Text_make_chunks(t, node, cascaded, x, y)
        measured_chunks ==
            [i \in 1..Len(st.chunks) |->
                MeasuredChunk_from_chunk(with_layouts(st.chunks[i]))]
        positioned_chunks == position_chunks(measured_chunks, x, y, << >>)
        r == draw_positioned_chunks(
                 positioned_chunks, fails_at,
                 [requests |-> << >>, boxes |-> << >>, bbox |-> empty_bbox,
                  ok |-> TRUE])
    IN [ok |-> r.ok, bbox |-> r.bbox, requests |-> r.requests,
        boxes |-> r.boxes, chunks |-> st.chunks,
        positioned |-> positioned_chunks, chars |-> st.chars]

(***************************************************************************)
(* Specification of Text::draw: a text of character data and tspans, laid  *)
(* out in one writing mode, drawn once by a backend that may fail one      *)
(* request.                                                                 *)
(***************************************************************************)
WithLayout(doc, anchor, mode) ==
    [n \in DOMAIN doc |->
        [doc[n] EXCEPT !.values =
            [owner |-> doc[n].values.owner, displayed |-> doc[n].values.displayed,
             xml_space |-> doc[n].values.xml_space,
             text_anchor |-> anchor, writing_mode |-> mode]]]

DrawnKinds == {"text", "chars", "tspan"}

DrawLayouts == {<< "start", "horizontal" >>, << "middle", "vertical" >>}

InitTextDraw ==
    /\ data = InitData
    /\ css_rules = TreeRules
    /\ inherited = [n \in Nodes |-> ComputedDefault]
    /\ rendered = NoDrawing
    /\ last = NoOp
    /\ ops = 0
    /\ call = NoCall
    /\ \E doc \in TextDocs(MaxTextNodes), l \in DrawLayouts :
            /\ \A n \in DOMAIN doc : doc[n].kind \in DrawnKinds
            /\ text = LoadText(WithLayout(doc, l[1], l[2]), TRUE)

TextDraw(fails_at) ==
    /\ call = NoCall
    /\ \E r \in {Text_draw(text, TextRoot, text.doc[TextRoot].values, fails_at)} :
          /\ call' = [fn |-> "draw", arg |-> [fails_at |-> fails_at], res |-> r]
          /\ text' = [text EXCEPT !.chars = r.chars]
    /\ UNCHANGED << data, css_rules, inherited, rendered, last, ops >>

NextTextDraw == call = NoCall /\ \E fails_at \in 0..MaxSpans : TextDraw(fails_at)

SpecTextDraw == InitTextDraw /\ [][NextTextDraw]_vars

(***************************************************************************)
(* Claims                                                                  *)
(***************************************************************************)
InSeq(x, q) == \E i \in 1..Len(q) : q[i] = x

IsPrefix(p, q) == Len(p) <= Len(q) /\ \A i \in 1..Len(p) : p[i] = q[i]

StepOrder == << "transform", "cond", "impl", "pres" >>

\* C1: set_atts runs transform, conditional processing, the element's own
\* attributes and the presentation attributes in this order and stops at
\* the first step that fails: the node is then in error with that step's
\* error, and no later step ran or changed the cond flag, the element's
\* payload or the specified values.
C1_StopsAtFirstFailure ==
    [][last'.op = "set_atts" =>
        LET n == last'.node
            pbag == last'.pbag
            d == data[n]
            d2 == data'[n]
            f1 == set_transform_attribute(pbag, d.transform).res
            f2 == parse_conditional_processing_attributes(pbag, d.cond, UserLocale).res
            f3 == node_impl_set_atts(pbag, d.payload).res
        IN  /\ IsPrefix(last'.ran, StepOrder)
            /\ IF f1.err
               THEN /\ d2.result = f1
                    /\ last'.ran = << "transform" >>
                    /\ d2.transform = d.transform
                    /\ d2.cond = d.cond
                    /\ d2.payload = d.payload
                    /\ d2.specified = d.specified
               ELSE IF f2.err
               THEN /\ d2.result = f2
                    /\ last'.ran = << "transform", "cond" >>
                    /\ d2.payload = d.payload
                    /\ d2.specified = d.specified
               ELSE IF f3.err
               THEN /\ d2.result = f3
                    /\ last'.ran = << "transform", "cond", "impl" >>
                    /\ d2.specified = d.specified
               ELSE /\ d2.result = d.result
                    /\ last'.ran = StepOrder
    ]_vars

\* C1 witness: a bag whose transform is invalid and which also holds a
\* requiredFeatures that evaluates false and a fill: the node is in error,
\* its cond flag is still true and its fill still unspecified.
C1_Witness ==
    /\ last.op = "set_atts"
    /\ InSeq(T_bad, last.pbag)
    /\ InSeq(RF_false, last.pbag) \/ InSeq(Fill_red, last.pbag)
    /\ data[last.node].result = Err("transform")
    /\ data[last.node].cond
    /\ data[last.node].specified["fill"] = Unspecified


(***************************************************************************)
(* The sources of a style pass on the element of SpecStyle                 *)
(***************************************************************************)
F_TagClassId == SelTagClassId(FocusName, FocusCls, get_id(Focus))
F_ClassId == SelClassId(FocusCls, get_id(Focus))
F_TagClass == SelTagClass(FocusName, FocusCls)
F_Class == SelClass(FocusCls)
F_Id == SelId(get_id(Focus))
F_TagId == SelTagId(FocusName, get_id(Focus))

\* The class selectors in the order they are tried: only the first one the
\* table holds is applied.
ClassOrder == << F_TagClassId, F_ClassId, F_TagClass, F_Class >>

\* The selectors of the table that a style pass on the element applies.
AppliedSelectors(rules) ==
    {s \in DOMAIN rules :
        \/ s \in {SelStar, SelTag(FocusName), F_Id, F_TagId}
        \/ \E i \in 1..Len(ClassOrder) :
               /\ s = ClassOrder[i]
               /\ \A j \in 1..(i - 1) : ClassOrder[j] \notin DOMAIN rules}

\* The place of a selector in the order universal, tag, class selectors,
\* #id, tag#id.
SelectorRank(s) ==
    CASE s = SelStar -> 1
      [] s = SelTag(FocusName) -> 2
      [] s = F_Id -> 4
      [] s = F_TagId -> 5
      [] OTHER -> 3

LastOf(S) == CHOOSE s \in S : \A t \in S : SelectorRank(t) <= SelectorRank(s)

ImportantSelectors(rules) ==
    {s \in AppliedSelectors(rules) : rules[s][1].important}

NoImportantInvolved(d, rules) ==
    /\ d.important_styles = {}
    /\ ImportantSelectors(rules) = {}
    /\ d.style_attr # Style_important.value

\* C2: with no important declaration involved, the fill that remains after
\* set_style is the one of the source applied last in the order universal,
\* tag, class selectors, #id, tag#id, inline style; a value set earlier by
\* a presentation attribute stays only when no source sets the property.
C2_LastSourceWins ==
    [][(last'.op = "set_style" /\ last'.node = Focus
        /\ NoImportantInvolved(data[Focus], css_rules)) =>
        LET d == data[Focus]
            applied == AppliedSelectors(css_rules)
        IN  data'[Focus].specified["fill"] =
                IF d.style_attr = Style_normal.value THEN "v_style"
                ELSE IF applied # {} THEN css_rules[LastOf(applied)][1].value
                ELSE d.specified["fill"]
    ]_vars

\* C2 witness: the table has normal rules for *, rect, .a and #x, the
\* element carried style="fill: v_style", and after set_style its fill is
\* v_style.
C2_Witness ==
    /\ last.op = "set_style"
    /\ last.pbag = << Style_normal >>
    /\ {SelStar, SelTag(FocusName), F_Class, F_Id} \subseteq DOMAIN css_rules
    /\ \A s \in DOMAIN css_rules : ~css_rules[s][1].important
    /\ data[Focus].specified["fill"] = "v_style"

\* C3: once an important declaration has set fill, no declaration applied
\* later that is not important changes it: after a style pass that applies
\* an important declaration the fill is the one of the last important
\* declaration applied, and a pass without one leaves a fill that an
\* earlier important declaration set as it was.
C3_ImportantBlocksLater ==
    [][(last'.op = "set_style" /\ last'.node = Focus) =>
        LET d == data[Focus]
            imp == ImportantSelectors(css_rules)
            fill2 == data'[Focus].specified["fill"]
        IN  /\ d.style_attr = Style_important.value => fill2 = "v_style"
            /\ (d.style_attr # Style_important.value /\ imp # {}) =>
                   fill2 = css_rules[LastOf(imp)][1].value
            /\ (d.style_attr # Style_important.value /\ imp = {}
                  /\ "fill" \in d.important_styles) =>
                   fill2 = d.specified["fill"]
    ]_vars

\* C3 witness: * { fill: v_star !important } with a normal rule for #x and
\* a normal inline style applied after it: the fill is v_star.
C3_Witness ==
    /\ last.op = "set_style"
    /\ last.pbag = << Style_normal >>
    /\ SelStar \in DOMAIN css_rules /\ css_rules[SelStar][1].important
    /\ F_Id \in DOMAIN css_rules
    /\ data[Focus].specified["fill"] = "v_star"
    /\ "fill" \in data[Focus].important_styles


\* The flag is false at some point of the walk over the bag: it was false
\* at the start, or a conditional-processing attribute evaluates to false
\* and every such attribute before it evaluates to true.
FlagFalseDuring(pbag, cond, locale) ==
    \/ ~cond
    \/ \E k \in 1..Len(pbag) :
           /\ pbag[k].attr \in CondAttrs
           /\ cond_from_attribute(pbag[k], locale) = CondOk(FALSE)
           /\ \A j \in 1..(k - 1) :
                  pbag[j].attr \in CondAttrs =>
                      cond_from_attribute(pbag[j], locale) = CondOk(TRUE)

\* C10: once the flag is false during the walk of set_atts over the bag, no
\* later requiredExtensions, requiredFeatures or systemLanguage attribute is
\* evaluated: the flag is false afterwards and the conditional-processing
\* step raises no error, whatever the later values are.
C10_ShortCircuit ==
    [][(last'.op = "set_atts" /\ InSeq("cond", last'.ran)
        /\ FlagFalseDuring(last'.pbag, data[last'.node].cond, UserLocale)) =>
        /\ ~data'[last'.node].cond
        /\ InSeq("impl", last'.ran)
        /\ data'[last'.node].result.attr \in CondAttrs =>
               data'[last'.node].result = data[last'.node].result
    ]_vars

\* C10 witness: a requiredFeatures that evaluates false followed by a
\* systemLanguage that does not parse: flag false, node not in error.
C10_Witness ==
    /\ last.op = "set_atts"
    /\ last.pbag = << RF_false, SL_bad >>
    /\ ~data[last.node].cond
    /\ ~is_in_error(data[last.node])


(***************************************************************************)
(* Claims on the tree                                                      *)
(***************************************************************************)
\* The computed values of n are the merge of the values passed to n at the
\* last cascade with n's specified values.
ComputedIsMerge(n) ==
    data[n].values = to_computed_values(data[n].specified, inherited[n])

\* C4 as stated: in every reachable state each node's computed values are
\* the merge of the values passed at the last cascade with the node's
\* current specified values.
C4_AlwaysMerged == \A n \in Nodes : ComputedIsMerge(n)

\* C4: right after cascade(n, v) every node of n's subtree has computed
\* values that are the merge of the values passed to it (v for n, the
\* parent's new computed values below n) with its specified values, and
\* the equality lasts for a node as long as its specified values are not
\* changed by a later operation.
C4_MergedUntilSpecifiedChanges ==
    [][/\ last'.op = "cascade" =>
            /\ inherited'[last'.node] = last'.values
            /\ \A m \in Subtree(last'.node) :
                   /\ ComputedIsMerge(m)'
                   /\ m # last'.node =>
                          inherited'[m] = data'[Parent(m)].values
       /\ \A m \in Nodes :
              (ComputedIsMerge(m) /\ data'[m].specified = data[m].specified)
                  => ComputedIsMerge(m)'
    ]_vars

\* C4 witness: the root has fill red as a specified value and was cascaded;
\* its child, with no fill of its own, has the computed fill red.
C4_Witness ==
    /\ last.op = "cascade" /\ last.node = Root
    /\ data[Root].specified["fill"] = "red"
    /\ \E m \in children(Root) :
           /\ data[m].specified["fill"] = Unspecified
           /\ inherited[m]["fill"] = "red"
           /\ data[m].values["fill"] = "red"


\* C5: cascade is idempotent and a function of the values passed in and
\* the specified values: after cascade(n, v) each node of n's subtree has
\* the merge of what its parent handed down (v for n itself) with its own
\* specified values, and a second cascade(n, v) right after the first
\* leaves every node's computed values as they were.
C5_CascadeIdempotent ==
    [][last'.op = "cascade" =>
        /\ \A m \in Subtree(last'.node) :
               data'[m].values =
                   to_computed_values(
                       data[m].specified,
                       IF m = last'.node THEN last'.values
                       ELSE data'[Parent(m)].values)
        /\ last'.again => \A m \in Nodes : data'[m].values = data[m].values
    ]_vars

\* C5 witness: the root was cascaded twice in a row from the same values,
\* not the defaults, on a tree where a node has a fill of its own that its
\* child inherits.
C5_Witness ==
    /\ last.op = "cascade" /\ last.again /\ last.node = Root
    /\ last.values # ComputedDefault
    /\ data[Root].values["fill"] = "blue"
    /\ \E m \in Nodes \ {Root} :
           /\ data[Parent(m)].specified["fill"] = "red"
           /\ data[m].values["fill"] = "red"


\* C6: cascade(n, v) changes the computed values of n and of n's
\* descendants only: the computed values of every node outside n's subtree
\* stay, and no node's specified values, error state, cond flag or
\* transform change.
C6_CascadeFrame ==
    [][last'.op = "cascade" =>
        \A m \in Nodes :
            /\ m \notin Subtree(last'.node) => data'[m].values = data[m].values
            /\ data'[m].specified = data[m].specified
            /\ data'[m].result = data[m].result
            /\ data'[m].cond = data[m].cond
            /\ data'[m].transform = data[m].transform
    ]_vars

\* C6 witness: after a cascade of the whole tree from one value set, a
\* child of the root was cascaded from another: its sibling and the root
\* keep the fill of the first cascade, the child has the fill of the second.
C6_Witness ==
    /\ last.op = "cascade" /\ last.node # Root /\ Parent(last.node) = Root
    /\ data[Root].values["fill"] = "blue"
    /\ data[last.node].values["fill"] = "black"
    /\ \E m \in children(Root) \ {last.node} : data[m].values["fill"] = "blue"


\* C7: a node that is in error stays in error after every later set_atts,
\* set_style, set_overridden_properties, set_overflow_hidden, cascade and
\* draw on any node of the tree.
C7_ErrorIsSticky ==
    [][\A n \in Nodes : is_in_error(data[n]) => is_in_error(data'[n])]_vars

\* C7 witness: a node in error on which a later set_atts with a valid
\* transform succeeded: the transform is set, the node is still in error.
C7_Witness ==
    /\ last.op = "set_atts" /\ last.pbag = << T_ok >>
    /\ last.ran = StepOrder
    /\ data[last.node].transform = 1
    /\ is_in_error(data[last.node])


\* The transforms from the drawn node n down to its descendant m, composed.
RECURSIVE PathTransform(_, _)
PathTransform(n, m) ==
    IF m = n THEN data[n].transform
    ELSE PathTransform(n, Parent(m)) + data[m].transform

Entries(log, m) == {i \in 1..Len(log) : log[i].node = m}

\* C8: Node::draw on a node in error invokes no draw handler, leaves the
\* matrix of the drawing context alone and returns Ok; on a node not in
\* error it invokes the handler of the node exactly once, with the node's
\* transform applied to the matrix, and the matrix is restored afterwards.
\* The same holds of every node the drawing reaches below it.
C8_DrawSkipsNodesInError ==
    [][last'.op = "draw" =>
        LET n == last'.node
            log == rendered'.log
        IN  /\ rendered'.ok
            /\ rendered'.ctm = 0
            /\ is_in_error(data[n]) => log = << >>
            /\ ~is_in_error(data[n]) =>
                   /\ Cardinality(Entries(log, n)) = 1
                   /\ log[1].node = n /\ log[1].ctm = data[n].transform
            /\ \A i \in 1..Len(log) :
                   /\ ~is_in_error(data[log[i].node])
                   /\ Cardinality(Entries(log, log[i].node)) = 1
                   /\ IsAncestorOrSelf(n, log[i].node)
                   /\ log[i].ctm = PathTransform(n, log[i].node)
    ]_vars

\* C8 witness: the root, with a transform, was drawn while one of its
\* children is in error: the root's handler and the handler of another
\* child ran under the root's transform, the handler of the child in error
\* did not, and the result is Ok.
C8_Witness ==
    /\ last.op = "draw" /\ last.node = Root
    /\ data[Root].transform = 1
    /\ rendered.ok
    /\ Entries(rendered.log, Root) # {}
    /\ \E m \in children(Root) :
           is_in_error(data[m]) /\ Entries(rendered.log, m) = {}
    /\ \E m \in children(Root), i \in 1..Len(rendered.log) :
           rendered.log[i].node = m /\ rendered.log[i].ctm = 1


\* The element n failed set_atts on its transform, and no ancestor of n is
\* in error.
TransformFailed(n) ==
    /\ data[n].result = Err("transform")
    /\ \A a \in Nodes \ {n} : IsAncestorOrSelf(a, n) => ~is_in_error(data[a])

\* C9 as stated: when the tree is drawn, an element whose transform was
\* invalid is skipped and each of its children that is not in error is
\* drawn.
C9_ChildrenStillDrawn ==
    (last.op = "draw" /\ last.node = Root) =>
        \A n \in Nodes :
            TransformFailed(n) =>
                /\ Entries(rendered.log, n) = {}
                /\ \A c \in children(n) :
                       ~is_in_error(data[c]) => Entries(rendered.log, c) # {}

\* C9: an element whose set_atts failed on an invalid transform is in
\* error; a cascade over it gives each of its children the merge of the
\* element's computed values with the child's specified values; a drawing
\* that starts at the element or above it invokes neither its draw handler
\* nor the handler of any node below it, in error or not.
C9_SubtreeOfErrorNotDrawn ==
    [][/\ last'.op = "cascade" =>
            \A n \in Subtree(last'.node) :
                data[n].result = Err("transform") =>
                    \A c \in children(n) :
                        data'[c].values =
                            to_computed_values(data[c].specified, data'[n].values)
       /\ last'.op = "draw" =>
            \A n \in Subtree(last'.node) :
                data[n].result = Err("transform") =>
                    \A m \in Subtree(n) : Entries(rendered'.log, m) = {}
    ]_vars

\* C9 witness: a child of the root with an invalid transform and a child of
\* its own that is not in error; the tree was cascaded from blue and then
\* drawn from the root: the grandchild has the fill blue handed down by the
\* element in error, the root was drawn, the element and the grandchild
\* were not.
C9_Witness ==
    /\ last.op = "draw" /\ last.node = Root
    /\ Entries(rendered.log, Root) # {}
    /\ \E n \in children(Root) :
           /\ TransformFailed(n)
           /\ data[n].values["fill"] = "blue"
           /\ Entries(rendered.log, n) = {}
           /\ \E c \in children(n) :
                  /\ ~is_in_error(data[c])
                  /\ inherited[c] = data[n].values
                  /\ data[c].values["fill"] = "blue"
                  /\ Entries(rendered.log, c) = {}


(***************************************************************************)
(* Claims on cond.rs                                                       *)
(***************************************************************************)
\* The comma-separated, trimmed tokens of a systemLanguage value.
LangTokens(s) == [i \in 1..Len(split(s, ",")) |-> trim(split(s, ",")[i])]

AllTokensParse(s) ==
    \A i \in 1..Len(LangTokens(s)) : LanguageTag_from_str(LangTokens(s)[i]).ok

FeatureSet == {IMPLEMENTED_FEATURES[i] : i \in 1..Len(IMPLEMENTED_FEATURES)}

\* C11: SystemLanguage::from_attribute is an error whenever some token is
\* no language tag, wherever it stands and whatever the tokens before it
\* matched; requiredFeatures and requiredExtensions are never an error, and
\* are false when a token is unknown.
C11_BadTokenIsError ==
    /\ call.fn = "SystemLanguage" =>
           (~AllTokensParse(call.arg) => call.res = CondErr)
    /\ call.fn \in {"RequiredFeatures", "RequiredExtensions"} =>
           /\ ~call.res.err
           /\ (\E i \in 1..Len(call.arg) :
                   IsWord(call.arg[i]) /\ call.arg[i] \notin FeatureSet)
                  => ~call.res.val

\* C11 witness: "de,12345": the first token matches the locale, the second
\* is no language tag, and the value is an error.
C11_Witness ==
    /\ call.fn = "SystemLanguage"
    /\ call.arg = << "de", ",", "12345" >>
    /\ call.res = CondErr


\* A locale range accepts a token when the token's subtags begin with the
\* subtags of the range, letter case apart.
RangeAccepts(range, token) ==
    LET r == [i \in 1..Len(Subtags(range)) |-> Lower(Subtags(range)[i])]
        t == [i \in 1..Len(Subtags(token)) |-> Lower(Subtags(token)[i])]
    IN  IsPrefix(r, t)

TokenAccepted(token) ==
    \E j \in 1..Len(UserLocale) : RangeAccepts(UserLocale[j], token[1])

\* C12: when every token of a systemLanguage value parses, the value is
\* true iff some token is accepted by some range of the locale; for the
\* locale de, en-US the tokens de-LU and DE are accepted, en, en-GB and fr
\* are not, and "fr, de" is true.
C12_TrueIffSomeTokenAccepted ==
    (call.fn = "SystemLanguage" /\ AllTokensParse(call.arg)) =>
        /\ call.res =
               CondOk(\E i \in 1..Len(LangTokens(call.arg)) :
                         TokenAccepted(LangTokens(call.arg)[i]))
        /\ call.arg \in {<< "de-LU" >>, << "DE" >>, << "de" >>, << "en-US" >>,
                          << "fr", ",", " ", "de" >>} => call.res = CondOk(TRUE)
        /\ call.arg \in {<< "en" >>, << "en-GB" >>, << "fr" >>} =>
               call.res = CondOk(FALSE)

\* C12 witness: "fr, de": fr is not accepted, de is, the value is true.
C12_Witness ==
    /\ call.fn = "SystemLanguage"
    /\ call.arg = << "fr", ",", " ", "de" >>
    /\ call.res = CondOk(TRUE)


TableStrictlySorted ==
    \A i \in 1..(Len(IMPLEMENTED_FEATURES) - 1) :
        str_cmp(IMPLEMENTED_FEATURES[i], IMPLEMENTED_FEATURES[i + 1]) = -1

\* C13: IMPLEMENTED_FEATURES is strictly sorted in the order of the binary
\* search, and RequiredFeatures::from_attribute is true iff every token is
\* an entry of the table.
C13_LookupIsMembership ==
    call.fn = "RequiredFeatures" =>
        /\ TableStrictlySorted
        /\ call.res =
               CondOk(\A i \in 1..Len(call.arg) :
                         IsWord(call.arg[i]) => call.arg[i] \in FeatureSet)

\* C13 witness: a supported feature followed by an unknown one is false.
C13_Witness ==
    /\ call.fn = "RequiredFeatures"
    /\ call.arg = << "http://www.w3.org/TR/SVG11/feature#BasicFilter", " ",
                     "http://www.w3.org/TR/SVG11/feature#NotExisting" >>
    /\ call.res = CondOk(FALSE)

(***************************************************************************)
(* Claims on text.rs                                                       *)
(***************************************************************************)
\* The walk of make_chunks enters n: every element strictly between the
\* text root and n is a displayed tspan.
Reached(doc, n) ==
    \A a \in DOMAIN doc \ {TextRoot, n} :
        IsTextAncestorOrSelf(doc, a, n) =>
            doc[a].kind = "tspan" /\ doc[a].values.displayed

\* The displayed tspans the walk reaches that declare x or y.
Openers(doc) ==
    {n \in DOMAIN doc :
        /\ doc[n].kind = "tspan"
        /\ Reached(doc, n)
        /\ doc[n].values.displayed
        /\ (doc[n].x.some \/ doc[n].y.some)}

\* The chunk that is last when the walk is at n.
ChunkAt(doc, n) == 1 + Cardinality({o \in Openers(doc) : o <= n})

NormalizedUnder(doc, n, values) ==
    xml_space_normalize(normalize_mode(doc, n, values), doc[n].string)

\* The Chars children the walk reaches that give a span, in document order.
DirectChars(doc, j) ==
    SortedSeq({c \in DOMAIN doc :
        /\ doc[c].kind = "chars"
        /\ Reached(doc, c)
        /\ ChunkAt(doc, c) = j
        /\ NormalizedUnder(doc, c, doc[doc[c].parent].values) # << >>})

\* The spans of a chunk that the walk made from Chars children, not
\* through a tref.
DirectSpans(doc, chunk) ==
    LET IsDirect(span) == doc[span.values.owner].kind # "tref"
    IN SelectSeq(chunk.spans, IsDirect)

LiveTRefs(t) ==
    {r \in DOMAIN t.doc :
        /\ t.doc[r].kind = "tref"
        /\ Reached(t.doc, r)
        /\ t.doc[r].values.displayed
        /\ t.doc[r].link.some
        /\ acquire(t, t.doc[r].link.v).ok}

\* The Chars below the target that give a span, in document order.
TargetChars(doc, r) ==
    SortedSeq({c \in DOMAIN doc :
        /\ doc[c].kind = "chars"
        /\ IsTextAncestorOrSelf(doc, doc[r].link.v, c)
        /\ NormalizedUnder(doc, c, doc[r].values) # << >>})

SpansOf(r, chunk) ==
    LET IsOfR(span) == span.values.owner = r
    IN SelectSeq(chunk.spans, IsOfR)

\* C15: a displayed tref whose target is acquired gives one span for each
\* non-empty Chars below the target, at any depth and in document order,
\* all in the chunk that is last when the walk is at the tref, all with the
\* tref's own values; it opens no chunk.
C15_TRefFlattensTarget ==
    call.fn = "make_chunks" =>
        \A r \in LiveTRefs(text) :
            LET doc    == text.doc
                chunks == call.res
                cs     == TargetChars(doc, r)
                spans  == SpansOf(r, chunks[ChunkAt(doc, r)])
            IN /\ Len(chunks) = 1 + Cardinality(Openers(doc))
               /\ Len(spans) = Len(cs)
               /\ \A i \in 1..Len(cs) :
                    /\ spans[i].text = NormalizedUnder(doc, cs[i], doc[r].values)
                    /\ spans[i].values = doc[r].values
               /\ \A j \in 1..Len(chunks) :
                    j # ChunkAt(doc, r) => SpansOf(r, chunks[j]) = << >>

\* <text id="t"><tspan x="10">c</tspan><tref href="#t"/></text>: the tref
\* adds c to the tspan's chunk.
C15_Witness ==
    /\ call.fn = "make_chunks"
    /\ Len(text.doc) = 4
    /\ text.doc[2].kind = "tspan" /\ text.doc[2].x.some
    /\ text.doc[4].kind = "tref" /\ 4 \in LiveTRefs(text)
    /\ Len(call.res) = 2
    /\ Len(call.res[2].spans) = 2
    /\ call.res[2].spans[2].text = << "c" >>
    /\ call.res[2].spans[2].values.owner = 4

\* The trefs the walk reaches that have no link, or a link the acquirer
\* does not resolve.
DeadTRefs(t) ==
    {r \in DOMAIN t.doc :
        /\ t.doc[r].kind = "tref"
        /\ Reached(t.doc, r)
        /\ (~t.doc[r].link.some \/ ~acquire(t, t.doc[r].link.v).ok)}

\* The chunks of the same document with node r replaced by an element the
\* walk ignores.
ChunksWithout(t, r) ==
    LET doc2 == [t.doc EXCEPT ![r].kind = "other"]
    IN Text_make_chunks(LoadText(doc2, t.acquirer_accepts), TextRoot,
                        doc2[TextRoot].values, doc2[TextRoot].x.v,
                        doc2[TextRoot].y.v).chunks

\* C16: a tref without a link, or whose target is not acquired, adds no
\* span and no chunk: the chunks are those of the document without it, so
\* the walk goes on with the siblings that follow; no node is put in error.
C16_DeadTRefIsSkipped ==
    call.fn = "make_chunks" =>
        \A r \in DeadTRefs(text) :
            /\ \A j \in 1..Len(call.res) : SpansOf(r, call.res[j]) = << >>
            /\ call.res = ChunksWithout(text, r)
            /\ \A n \in Nodes : ~is_in_error(data[n])

\* <text>b<tref href="#missing"/>d</text>: one chunk [b, d].
C16_Witness ==
    /\ call.fn = "make_chunks"
    /\ Len(text.doc) = 4
    /\ text.doc[3].kind = "tref"
    /\ text.doc[3].link = Some(MissingId)
    /\ 3 \in DeadTRefs(text)
    /\ Len(call.res) = 1
    /\ Len(call.res[1].spans) = 2
    /\ call.res[1].spans[2].text = << "d" >>

\* The shift the claim gives: on y in vertical writing mode and on x
\* otherwise; nothing for start, minus half of the advance on that axis for
\* middle, minus all of it for end; nothing on the other axis.
AnchorShiftIs(anchor, writing_mode, advance, shift) ==
    LET axis  == IF writing_mode = "vertical" THEN 2 ELSE 1
        other == IF writing_mode = "vertical" THEN 1 ELSE 2
    IN /\ shift[other] = 0
       /\ anchor = "start" => shift[axis] = 0
       /\ anchor = "middle" => 2 * shift[axis] = 0 - advance[axis]
       /\ anchor = "end" => shift[axis] = 0 - advance[axis]

\* Where the positioning loop starts a chunk before the anchor shift.
ChunkOrigin(c) ==
    << IF c.arg.chunk.x.some THEN c.arg.chunk.x.v ELSE c.arg.x,
       IF c.arg.chunk.y.some THEN c.arg.chunk.y.v ELSE c.arg.y >>

\* Where the first span of the chunk starts, or where an empty chunk ends.
ChunkStart(c) ==
    IF c.res.spans = << >> THEN << c.res.next_chunk_x, c.res.next_chunk_y >>
    ELSE c.res.spans[1].position

\* C17: text_anchor_advance shifts by nothing for start, by minus half of
\* the chunk's advance for middle and by minus the whole advance for end,
\* on the y axis in vertical writing mode and on the x axis otherwise; a
\* positioned chunk starts at its origin plus this shift.
C17_AnchorShift ==
    /\ call.fn = "text_anchor_advance" =>
            AnchorShiftIs(call.arg.anchor, call.arg.writing_mode,
                          call.arg.advance, call.res)
    /\ call.fn = "position" =>
            AnchorShiftIs(call.arg.chunk.values.text_anchor,
                          call.arg.chunk.values.writing_mode,
                          call.arg.chunk.advance,
                          << ChunkStart(call)[1] - ChunkOrigin(call)[1],
                             ChunkStart(call)[2] - ChunkOrigin(call)[2] >>)

\* A chunk of advance (100, 0) anchored in the middle at x = 50: its first
\* span starts at x = 0.
C17_Witness ==
    /\ call.fn = "position"
    /\ call.arg.chunk.values = LayoutValues("middle", "horizontal")
    /\ call.arg.chunk.x = Some(U(50))
    /\ call.arg.chunk.advance = << U(100), 0 >>
    /\ call.res.spans[1].position[1] = 0

\* The spans of a positioned chunk follow one another from first, each
\* ending at its start plus its advance plus its own (dx, dy); the chunk
\* ends where its last span ends, or at first if it has no span.
SpansChained(measured, positioned, first) ==
    /\ Len(positioned.spans) = Len(measured.spans)
    /\ \A i \in 1..Len(positioned.spans) :
        LET s == positioned.spans[i]
            m == measured.spans[i]
        IN /\ s.position = IF i = 1 THEN first
                           ELSE << positioned.spans[i - 1].next_span_x,
                                   positioned.spans[i - 1].next_span_y >>
           /\ s.next_span_x = s.position[1] + m.advance[1] + m.dx
           /\ s.next_span_y = s.position[2] + m.advance[2] + m.dy
    /\ << positioned.next_chunk_x, positioned.next_chunk_y >> =
            IF positioned.spans = << >> THEN first
            ELSE << positioned.spans[Len(positioned.spans)].next_span_x,
                    positioned.spans[Len(positioned.spans)].next_span_y >>

\* C18: a chunk starts, on each axis, at its explicit coordinate if it has
\* one and otherwise at the running position the chunk before it ended at,
\* shifted by the anchor; its spans follow one another, each ending at its
\* start plus its advance plus its own (dx, dy); the end of the last span,
\* or the shifted start of an empty chunk, is the running position handed
\* to the next chunk.
C18_RunningPosition ==
    [][call'.fn = "position" =>
        LET measured == call'.arg.chunk
            origin == << IF measured.x.some THEN measured.x.v ELSE text.x,
                         IF measured.y.some THEN measured.y.v ELSE text.y >>
            first  == ChunkStart(call')
        IN /\ AnchorShiftIs(measured.values.text_anchor,
                            measured.values.writing_mode, measured.advance,
                            << first[1] - origin[1], first[2] - origin[2] >>)
           /\ SpansChained(measured, call'.res, first)
           /\ text'.x = call'.res.next_chunk_x
           /\ text'.y = call'.res.next_chunk_y
           /\ call.fn = "position" =>
                text.x = call.res.next_chunk_x /\ text.y = call.res.next_chunk_y
    ]_vars

\* A second chunk with y only and two spans: it starts on x where the
\* first chunk ended, and its second span where its first one ended.
C18_Witness ==
    /\ call.fn = "position"
    /\ text.positioned = 2
    /\ ~call.arg.chunk.x.some /\ call.arg.chunk.y.some
    /\ call.arg.chunk.values.text_anchor = "start"
    /\ call.arg.x # U(TextX)
    /\ Len(call.res.spans) = 2
    /\ call.arg.chunk.spans[1].dx # 0
    /\ call.res.spans[1].position = << call.arg.x, call.arg.chunk.y.v >>
    /\ call.res.spans[2].position[1] =
            call.arg.x + call.arg.chunk.spans[1].advance[1] + call.arg.chunk.spans[1].dx
    /\ text.x = call.res.spans[2].next_span_x

\* C19: a span made from a Chars node under xml:space = preserve has the
\* node's raw accumulated text, whatever happened to the node before.
C19_PreserveIsVerbatim ==
    (call.fn = "make_span" /\ call.arg.values.xml_space = "preserve") =>
        (call.res.some =>
            call.res.v.text = text.chars[TheChars(text.doc)].string)

\* The normalizations of the node's text under the values of its callers.
Normalizations(t, n) ==
    {xml_space_normalize(normalize_mode(t.doc, n, values), t.chars[n].string) :
        values \in CallerValues}

\* C20: the cache of a Chars node is absent after creation and after every
\* append, is computed at most once between two appends, and a span's text
\* is a normalization of the whole text accumulated so far: the one of the
\* call itself when that call filled the cache.
C20_CacheFollowsAppends ==
    LET n == TheChars(text.doc)
        c == text.chars[n]
    IN /\ call.fn \in {"none", "append"} => c.space_normalized = NoString
       /\ c.computed <= 1
       /\ c.space_normalized.some => c.space_normalized.v \in Normalizations(text, n)
       /\ call.fn = "make_span" =>
            /\ c.space_normalized.some
            /\ call.res.some = (c.space_normalized.v # << >>)
            /\ call.res.some => call.res.v.text = c.space_normalized.v
            /\ call.arg.before.string = c.string
            /\ ~call.arg.before.space_normalized.some =>
                    c.space_normalized.v =
                        xml_space_normalize(
                            normalize_mode(text.doc, n, call.arg.values), c.string)

\* " a", a span, then "a" appended and a second span: the second span is
\* made from all of " aa".
C20_Witness ==
    /\ call.fn = "make_span"
    /\ Len(text.doc) = 2
    /\ text.chars[2].string = << " ", "a", "a" >>
    /\ text.chars[2].computed = 1
    /\ ~call.arg.before.space_normalized.some
    /\ call.arg.values.xml_space = "default"
    /\ call.res.some /\ call.res.v.text = << "a", "a" >>

(***************************************************************************)
(* Claims on Text::draw                                                    *)
(***************************************************************************)
RECURSIVE ConcatSpans(_)
ConcatSpans(chunks) ==
    IF chunks = << >> THEN << >>
    ELSE Head(chunks).spans \o ConcatSpans(Tail(chunks))

Max(S) == CHOOSE x \in S : \A y \in S : x >= y

\* The union of boxes, none of them empty: the smallest rectangle that
\* holds them all, and the empty box when there is none.
UnionOfBoxes(boxes) ==
    IF boxes = << >> THEN empty_bbox
    ELSE [empty |-> FALSE,
          x0 |-> Min({boxes[i].x0 : i \in 1..Len(boxes)}),
          y0 |-> Min({boxes[i].y0 : i \in 1..Len(boxes)}),
          x1 |-> Max({boxes[i].x1 : i \in 1..Len(boxes)}),
          y1 |-> Max({boxes[i].y1 : i \in 1..Len(boxes)})]

\* The Chars nodes the walk reaches whose normalized text is not empty, in
\* document order (a text without tref).
SpanChars(doc) ==
    SortedSeq({c \in DOMAIN doc :
        /\ doc[c].kind = "chars"
        /\ Reached(doc, c)
        /\ NormalizedUnder(doc, c, doc[doc[c].parent].values) # << >>})

\* The positioned spans are those of the non-empty Chars nodes, in chunk
\* order and then span order; a Chars node of empty normalized text gives
\* none.
SpansAreOfChars(res) ==
    LET spans == ConcatSpans(res.positioned)
        cs    == SpanChars(text.doc)
    IN /\ ConcatSpans(res.chunks) =
            [k \in 1..Len(cs) |->
                Span_new(NormalizedUnder(text.doc, cs[k],
                                         text.doc[text.doc[cs[k]].parent].values),
                         text.doc[text.doc[cs[k]].parent].values,
                         ConcatSpans(res.chunks)[k].dx,
                         ConcatSpans(res.chunks)[k].dy,
                         ConcatSpans(res.chunks)[k].depth)]
       /\ Len(spans) = Len(cs)
       /\ \A j \in 1..Len(res.positioned) :
            Len(res.positioned[j].spans) = Len(res.chunks[j].spans)

StepsOneToThreeSucceeded(l) == l.op = "set_atts" /\ InSeq("pres", l.ran)

HasBadPresentationValue(pbag) ==
    \E i \in 1..Len(pbag) :
        /\ pbag[i].attr \in Props
        /\ ~(Len(pbag[i].value) = 1 /\ pbag[i].value[1] \in ValidValues(pbag[i].attr))

\* C22: a set_atts whose steps 1 to 3 succeed records no failure, whatever
\* the values of the presentation attributes of the bag: the node's result
\* is what it was before the call, so a node that was not in error is not
\* in error after it.
C22_PresentationErrorsSwallowed ==
    [][StepsOneToThreeSucceeded(last') =>
            /\ data'[last'.node].result = data[last'.node].result
            /\ ~is_in_error(data[last'.node]) => ~is_in_error(data'[last'.node])
      ]_vars

\* transform="translate(1)" fill="bogus" on a fresh node: not in error.
C22_Witness ==
    /\ last.op = "set_atts"
    /\ ops = 1
    /\ last.pbag = << T_ok, Fill_bad >>
    /\ HasBadPresentationValue(last.pbag)
    /\ StepsOneToThreeSucceeded(last)
    /\ data[Focus].transform = 1
    /\ ~is_in_error(data[Focus])

\* The elements whose draw handler ran to the point of drawing their
\* children.
DrewChildren(r) ==
    {r.log[i].node : i \in 1..Len(r.log)} \ r.fails

Visited(r) == {r.visited[i] : i \in 1..Len(r.visited)}

\* Whether Node::draw of node m returns a failure, under the backend of r.
DrawReturnsFailure(m, r) ==
    ~draw(data, m, get_cascaded_values(data, m), NewDrawingCtx(r.fails)).ok

\* C23 as stated: when draw_children draws the children of a node, every
\* child is visited.
C23_EveryChildVisited ==
    rendered.drawn =>
        \A n \in DrewChildren(rendered) : children(n) \subseteq Visited(rendered)

\* C23: draw_children visits the children in order and goes on after a
\* child in error, whose drawing returns Ok; it stops after the first child
\* whose drawing returns a failure, which it returns: the siblings after
\* that child are not visited.
C23_ChildrenVisitedUntilFailure ==
    rendered.drawn =>
        /\ \A n \in DrewChildren(rendered) :
            LET cs == children_seq(n)
            IN \A i \in 1..Len(cs) :
                    cs[i] \in Visited(rendered) <=>
                        \A j \in 1..(i - 1) : ~DrawReturnsFailure(cs[j], rendered)
        /\ \A m \in Nodes : is_in_error(data[m]) => ~DrawReturnsFailure(m, rendered)
        /\ rendered.ok = ~DrawReturnsFailure(last.node, rendered)

\* The root drawn when the handler of its first child fails: the second
\* child is not visited, and the drawing fails.
C23_Witness ==
    /\ rendered.drawn
    /\ last.node = Root
    /\ \A n \in Nodes : ~is_in_error(data[n])
    /\ rendered.fails = {2}
    /\ rendered.visited = << Root, 2 >>
    /\ 3 \in children(Root)
    /\ ~rendered.ok

\* The positions of the transform attributes of a bag.
TransformsOf(pbag) == {i \in 1..Len(pbag) : pbag[i].attr = "transform"}

\* C24: after set_atts on a fresh node with a bag of more than one
\* transform attribute, the node's transform is the one parsed from the
\* last of them, and the node is in error only if that last one is invalid.
C24_LastTransformWins ==
    (last.op = "set_atts" /\ ops = 1 /\ Cardinality(TransformsOf(last.pbag)) > 1) =>
        LET m == Matrix_parse_str(last.pbag[Max(TransformsOf(last.pbag))].value)
            d == data[last.node]
        IN /\ m.ok => d.transform = m.matrix
           /\ is_in_error(d) => ~m.ok

(***************************************************************************)
(* Claims on the class selectors                                           *)
(***************************************************************************)
\* The selector of the table that declares overflow.
Marked(rules) == CHOOSE s \in DOMAIN rules : rules[s][1].prop = "overflow"

\* The declarations of the marked selector were applied to node n.
MarkedApplied(n) == data[n].specified["overflow"] = "hidden"

\* The compound selectors of a class token of node n, in the order
\* tag.class#id, .class#id, tag.class; the first two only with an id.
CompoundOrder(n, cls) ==
    LET name == element_name(get_type(n))
    IN  (IF get_id(n) # NoneStr
         THEN << SelTagClassId(name, cls, get_id(n)), SelClassId(cls, get_id(n)) >>
         ELSE << >>)
        \o << SelTagClass(name, cls) >>

FirstStylePass(n) == last.op = "set_style" /\ last.node = n /\ ops = 1

\* C25: for each class token of a node, set_css_styles applies the bare
\* .class rule if and only if the table has a rule for none of
\* tag.class#id, .class#id (both only for a node with an id) and tag.class.
C25_BareClassIsFallback ==
    \A n \in ClassedNodes : \A cls \in ClassTokens(n) :
        (FirstStylePass(n) /\ Marked(css_rules) = SelClass(cls)) =>
            (MarkedApplied(n) <=>
                \A i \in 1..Len(CompoundOrder(n, cls)) :
                    CompoundOrder(n, cls)[i] \notin DOMAIN css_rules)

\* <rect class="a b"> under rect.a { fill } and .a { overflow }: the .a
\* rule is in the table and is not applied.
C25_Witness ==
    /\ FirstStylePass(3)
    /\ get_id(3) = NoneStr
    /\ DOMAIN css_rules = {SelTagClass("rect", << "a" >>), SelClass(<< "a" >>)}
    /\ Marked(css_rules) = SelClass(<< "a" >>)
    /\ data[3].specified["fill"] = "red"
    /\ ~MarkedApplied(3)

\* C30: for each class token, of the compound selectors tag.class#id,
\* .class#id and tag.class only the first one in that order that the table
\* holds is applied: a later one is not applied even when the table has a
\* rule for it.
C30_FirstCompoundOnly ==
    \A n \in ClassedNodes : \A cls \in ClassTokens(n) :
        \A i \in 1..Len(CompoundOrder(n, cls)) :
            (FirstStylePass(n) /\ Marked(css_rules) = CompoundOrder(n, cls)[i]) =>
                (MarkedApplied(n) <=>
                    \A j \in 1..(i - 1) :
                        CompoundOrder(n, cls)[j] \notin DOMAIN css_rules)

\* <rect class="a" id="x"> under rect.a#x { fill }, .a#x { overflow } and
\* rect.a { fill }: only rect.a#x is applied.
C30_Witness ==
    /\ FirstStylePass(Focus)
    /\ DOMAIN css_rules = {F_TagClassId, F_ClassId, F_TagClass}
    /\ Marked(css_rules) = F_ClassId
    /\ data[Focus].specified["fill"] = "red"
    /\ ~MarkedApplied(Focus)

\* C26: the error state of a node is write-once: a set_style on a node on
\* which a failure is already recorded does not assign the node's result
\* again, so a failure of the inline style declarations does not replace a
\* failure recorded by set_atts; drawing never writes the result.
C26_ErrorIsWriteOnce ==
    [][\A n \in Nodes :
            /\ (last'.op = "set_style" /\ is_in_error(data[n])) =>
                    data'[n].result = data[n].result
            /\ last'.op = "draw" => data'[n].result = data[n].result
      ]_vars

(***************************************************************************)
(* Further claims on chunk construction                                    *)
(***************************************************************************)
CharsBelow(doc, a) ==
    {c \in DOMAIN doc : doc[c].kind = "chars" /\ IsTextAncestorOrSelf(doc, a, c)}

AllTRefs(doc) == {r \in DOMAIN doc : doc[r].kind = "tref"}

\* The spans that tref r made from the Chars node c (the text of a Chars
\* node that holds a letter names the node).
SpansFrom(chunks, r, c) ==
    LET IsFromC(span) == span.values.owner = r /\ span.text = << Letters[c] >>
    IN SelectSeq(ConcatSpans(chunks), IsFromC)

\* C27: on every document, also when a tref targets its own text element,
\* an ancestor, or an element that contains a tref, make_chunks returns
\* chunks in which a tref has made at most one span from each Chars node
\* below its target in the tree and none from any other node, whatever
\* trefs the target contains: the walk below a target dereferences nothing,
\* and the number of spans is bounded by the size of the document.
C27_FlatteningFollowsNoReference ==
    call.fn = "make_chunks" =>
        LET doc == text.doc
        IN /\ \A r \in AllTRefs(doc) : \A c \in DOMAIN doc :
                /\ Len(SpansFrom(call.res, r, c)) <= 1
                /\ Len(SpansFrom(call.res, r, c)) = 1 =>
                        /\ r \in LiveTRefs(text)
                        /\ c \in CharsBelow(doc, doc[r].link.v)
           /\ \A r \in AllTRefs(doc) :
                Len(SelectSeq(ConcatSpans(call.res),
                              LAMBDA span : span.values.owner = r))
                    <= Cardinality(CharsBelow(doc, TextRoot))
           /\ Len(ConcatSpans(call.res)) <=
                Cardinality(CharsBelow(doc, TextRoot))
                    * (1 + Cardinality(AllTRefs(doc)))

\* <text>b<tspan><tref href="#the text"/></tspan></text>: the tref, inside
\* its own target, gives one span b and the walk ends.
C27_Witness ==
    /\ call.fn = "make_chunks"
    /\ Len(text.doc) = 4
    /\ text.doc[2].string = << "b" >>
    /\ text.doc[3].kind = "tspan"
    /\ text.doc[4].kind = "tref" /\ text.doc[4].parent = 3
    /\ text.doc[4].link = Some(TextRoot)
    /\ 4 \in LiveTRefs(text)
    /\ Len(SpansFrom(call.res, 4, 2)) = 1
    /\ Len(ConcatSpans(call.res)) = 2


(***************************************************************************)
(* Further claims on conditional processing                                *)
(***************************************************************************)
\* No requiredExtensions, requiredFeatures or systemLanguage value of the
\* bag is malformed.
NoMalformedCond(pbag, locale) ==
    \A k \in 1..Len(pbag) :
        pbag[k].attr \in CondAttrs => ~cond_from_attribute(pbag[k], locale).err

\* The conjunction of the evaluations of the conditional-processing
\* attributes present in the bag, a quantification over its positions that
\* no reordering of the bag changes.
CondConjunction(pbag, locale) ==
    \A k \in 1..Len(pbag) :
        pbag[k].attr \in CondAttrs => cond_from_attribute(pbag[k], locale).val

\* The flag is never changed from false to true by a set_atts call.
FlagStaysFalse ==
    (last'.op = "set_atts" /\ ~data[last'.node].cond) => ~data'[last'.node].cond

\* C28 as stated: for a fresh node and a bag in which no conditional-
\* processing value is malformed, the flag after set_atts is the
\* conjunction of the evaluations of the conditional-processing attributes
\* present, and no later set_atts changes the flag from false to true.
C28_FlagIsConjunction ==
    [][/\ (/\ last'.op = "set_atts"
           /\ data[last'.node] = NodeData_new
           /\ NoMalformedCond(last'.pbag, UserLocale)) =>
              data'[last'.node].cond = CondConjunction(last'.pbag, UserLocale)
       /\ FlagStaysFalse
    ]_vars

\* C28 amended: for a fresh node and a bag in which no conditional-
\* processing value is malformed and whose transform step succeeded, the
\* flag after set_atts is the conjunction of the evaluations of the
\* conditional-processing attributes present, the same for every ordering
\* of the bag; and no later set_atts changes the flag from false to true.
C28_FlagIsConjunctionAfterTransform ==
    [][/\ (/\ last'.op = "set_atts"
           /\ data[last'.node] = NodeData_new
           /\ InSeq("cond", last'.ran)
           /\ NoMalformedCond(last'.pbag, UserLocale)) =>
              data'[last'.node].cond = CondConjunction(last'.pbag, UserLocale)
       /\ FlagStaysFalse
    ]_vars

\* C28 witness: a first set_atts on the fresh node left the flag false, and
\* a second set_atts whose only attribute is a requiredFeatures that would
\* evaluate true has run its conditional-processing step without turning
\* the flag back.
C28_Witness ==
    /\ ops = 2
    /\ last.op = "set_atts"
    /\ last.pbag = << RF_true >>
    /\ InSeq("cond", last.ran)
    /\ ~data[last.node].cond
    /\ ~is_in_error(data[last.node])


(***************************************************************************)
(* Claims on the cascaded values of a drawing                              *)
(***************************************************************************)
\* The values the draw handler of node m read, in the log of a drawing.
ValuesDrawn(log, m) ==
    log[CHOOSE i \in 1..Len(log) : log[i].node = m].values

LoggedNodes(log) == {log[i].node : i \in 1..Len(log)}

\* The tree was just cascaded: the last operation was a cascade from the
\* root.
JustCascaded == last.op = "cascade" /\ last.node = Root

\* C29: a drawing leaves the tree as it was and reaches every node below
\* its start; started from a node's own cascade, every handler reads the
\* node's stored computed values; started from substituted values v, the
\* start node's handler reads merge(v, specified) and every descendant's
\* handler reads the merge of the values its parent's handler read with
\* its own specified values; and on a tree just cascaded, with v the
\* stored computed values of the start node's parent, the substituted
\* drawing reads the stored computed values of every node it reaches.
C29_DerivationLeavesTree ==
    [][last'.op = "draw" =>
        /\ data' = data
        /\ LoggedNodes(rendered'.log) = Subtree(last'.node)
        /\ \A m \in Subtree(last'.node) :
               /\ rendered'.mode = "FromNode" =>
                      ValuesDrawn(rendered'.log, m) = data[m].values
               /\ rendered'.mode = "FromValues" =>
                      ValuesDrawn(rendered'.log, m) =
                          to_computed_values(
                              data[m].specified,
                              IF m = last'.node THEN last'.values
                              ELSE ValuesDrawn(rendered'.log, Parent(m)))
               /\ (/\ rendered'.mode = "FromValues"
                   /\ JustCascaded
                   /\ last'.node # Root
                   /\ last'.values = data[Parent(last'.node)].values) =>
                      ValuesDrawn(rendered'.log, m) = data[m].values
    ]_vars

\* C29 witness: the root was drawn from substituted values and the handler
\* of a grandchild read values that are not its stored computed values,
\* which are still those of the last cascade.
C29_Witness ==
    /\ last.op = "draw" /\ last.node = Root
    /\ rendered.mode = "FromValues"
    /\ \E m \in Nodes :
           /\ m # Root /\ Parent(m) # Root
           /\ m \in LoggedNodes(rendered.log)
           /\ ValuesDrawn(rendered.log, m) # data[m].values
           /\ data[m].values = to_computed_values(data[m].specified, inherited[m])
           /\ ops > 0

====
